---------------------------- MODULE Spec2Model ----------------------------
(***************************************************************************)
(* A model of wtdbg2-homopolymer-decompression:                            *)
(*   - decompress (src/src/decompress/mod.rs), the coordinate mapper;      *)
(*   - FastaSequenceIndex (src/src/fasta_sequence_index/mod.rs), serial    *)
(*     and parallel build and get_sequence;                                *)
(*   - the pipeline of main (src/src/main.rs) with the LineContext of      *)
(*     src/src/wtdbg2_ctg_lay/mod.rs.                                      *)
(* Sequences are 1-based here and 0-based in the source: the source's      *)
(* sequence[i] is seq[i + 1].                                              *)
(***************************************************************************)
EXTENDS Integers, Sequences, FiniteSets, TLC

VARIABLES
    \* ---- decompress: one call, block by block
    d_sequence,         \* the argument sequence
    d_offset,           \* the argument offset
    d_limit,            \* the argument limit
    d_shifted_offset,   \* the value of the first block
    d_shifted_limit,    \* the value after the second block
    d_pc,               \* "offset" | "limit" | "done" | "idle"
    \* ---- FastaSequenceIndex: the input and the two builds
    fasta,              \* the records of the FASTA file: [id, seq]
    b_next,             \* build: records consumed from reader.records()
    b_file,             \* build: bytes written through writer
    b_index,            \* build: index
    b_offset,           \* build: offset
    b_pc,               \* build: "running" | "done" | "panicked" | "idle"
    channel_size,       \* build_parallel: the bound of the channel
    channel,            \* build_parallel: records in the channel
    r_next,             \* reader thread: records sent
    r_pc,               \* reader thread: "running" | "done" | "panicked" | "idle"
    w_file,             \* writer thread: bytes written through writer
    w_index,            \* writer thread: index
    w_offset,           \* writer thread: offset
    w_pc,               \* writer thread: "running" | "done" | "panicked" | "idle"
    \* ---- FastaSequenceIndex::get_sequence
    q_output,           \* the caller's Vec: [bytes, allocated, dangling]
    q_last,             \* the last call: [self, id] or NoCall
    q_pc,               \* "ready" | "panicked" | "aborted" | "idle"
    \* ---- main: the pipeline
    input_lines,        \* the lines of the input file
    queue_size,         \* configuration.queue_size
    compute_threads,    \* configuration.compute_threads
    overflow_checks,    \* the build: "on" | "off" | "undetermined" (not shown yet)
    pc,                 \* of input_reader, input_parser, read_sequence_reader,
                        \* sorter, output_writer: "running" | "done" |
                        \* "panicked" | "aborted" | "idle"
    line_number,        \* input_reader: lines sent
    input_queue,        \* input_sender -> input_receiver
    context,            \* input_parser: context
    alignment_queue,    \* alignment_sender -> alignment_receiver
    decorated_queue,    \* decorated_alignment_sender -> decorated_alignment_receiver
    decompressor,       \* thread_index -> [pc, holds]: pc as above or "sending"
    decompressed_queue, \* decompressed_alignment_sender -> decompressed_alignment_receiver
    sorter,             \* sorter: its locals but sorted_lines
    sorted_lines,       \* sorter: sorted_lines, in key order
    output_queue,       \* output_sender -> output_receiver
    output_writer,      \* output_writer: current_offset, current_last_edge_length,
                        \* current_contig_line
    tmp_file,           \* the lines written to <output>.current_contig
    output_file,        \* the lines written to the output file
    stamped,            \* history: the records the parser sent, in its order
    forwarded,          \* history: the records the sorter sent to the writer
    \* ---- a call of one function of wtdbg2_ctg_lay or of reverse_complement
    l_call,             \* the function and its arguments
    l_result            \* None while the call runs, then Some(what it returned)

dVars == <<d_sequence, d_offset, d_limit, d_shifted_offset, d_shifted_limit, d_pc>>

bVars == <<b_next, b_file, b_index, b_offset, b_pc>>
pVars == <<channel_size, channel, r_next, r_pc, w_file, w_index, w_offset, w_pc>>
qVars == <<q_output, q_last, q_pc>>
iVars == <<fasta, bVars, pVars, qVars>>

cfgVars == <<input_lines, queue_size, compute_threads>>
mVars == <<cfgVars, overflow_checks, pc, line_number, input_queue, context, alignment_queue,
           decorated_queue, decompressor, decompressed_queue, sorter, sorted_lines,
           output_queue, output_writer, tmp_file, output_file, stamped, forwarded>>

\* What an action of one component leaves alone.
lVars == <<l_call, l_result>>

notDecompress == <<iVars, mVars, lVars>>
notIndex == <<dVars, mVars, lVars>>
notMain == <<dVars, iVars, lVars>>
notLine == <<dVars, iVars, mVars>>

vars == <<dVars, iVars, mVars, lVars>>

-----------------------------------------------------------------------------
(* Bounds and input alphabets.                                             *)

\* Longest byte sequence handed to decompress.
MaxSeqLen == 4
\* Largest compressed coordinate handed to decompress.
MaxCoord == 5
\* The byte values sequences are drawn from.
Bytes == {0, 1, 2}

\* The sequence of tests::test_decompress.
TestSequence == <<0, 0, 1, 1, 2, 3, 3, 3, 4, 5>>

RECURSIVE SeqsUpTo(_, _)
SeqsUpTo(S, n) ==
    IF n = 0 THEN {<<>>}
    ELSE LET shorter == SeqsUpTo(S, n - 1)
         IN  shorter \cup {Append(s, x) : s \in {t \in shorter : Len(t) = n - 1}, x \in S}

\* The slice sequence[a..b] of the source (a inclusive, b exclusive, 0-based).
Slice(seq, a, b) == SubSeq(seq, a + 1, b)

-----------------------------------------------------------------------------
(* decompress                                                              *)

\* The number of windows of sequence.windows(2).
WindowCount(seq) == IF Len(seq) >= 2 THEN Len(seq) - 1 ELSE 0

\* One of the two for loops over sequence.windows(2): the window index and
\* the uncompressed cursor start at `shifted`, the compressed counter at
\* `current`. The value is <<shifted, current>> when the loop is left, by
\* the break or by running out of windows.
RECURSIVE WindowScan(_, _, _, _)
WindowScan(seq, shifted, current, target) ==
    IF shifted >= WindowCount(seq) THEN <<shifted, current>>
    ELSE IF current = target THEN <<shifted, current>>
    ELSE WindowScan(seq, shifted + 1,
                    IF seq[shifted + 1] # seq[shifted + 2] THEN current + 1 ELSE current,
                    target)

\* A plausible slip: no fix-up after the loops.
AfterScanNoFixup(scan, target) == scan[1]

\* The fix-up after a loop: "The windowed iteration cannot recognise an
\* offset after the end of the sequence."
AfterScan(scan, target) == IF scan[2] # target THEN scan[1] + 1 ELSE scan[1]

\* The block "Find offset".
FindOffset(offset, seq) == AfterScan(WindowScan(seq, 0, 0, offset), offset)

\* A plausible slip: the limit scan counts compressed positions from 0 again
\* although it starts in the middle of the sequence.
FindLimitRestartedCounter(offset, limit, seq, shifted_offset) ==
    AfterScan(WindowScan(seq, shifted_offset, 0, limit), limit)

\* A plausible slip: the fix-up after the limit loop is forgotten.
FindLimitNoFixup(offset, limit, seq, shifted_offset) ==
    WindowScan(seq, shifted_offset, offset, limit)[1]

\* The block "Find limit": windows(2).skip(shifted_offset), with
\* shifted_limit = shifted_offset and current_limit = offset at the start.
FindLimit(offset, limit, seq, shifted_offset) ==
    AfterScan(WindowScan(seq, shifted_offset, offset, limit), limit)

decompress(offset, limit, seq) ==
    LET shifted_offset == FindOffset(offset, seq)
    IN  <<shifted_offset, FindLimit(offset, limit, seq, shifted_offset)>>

\* The arguments of a call: every short sequence with every pair
\* offset <= limit, and the sequence of the test with every pair.
DecompressInputs ==
    {<<seq, o, l>> : seq \in SeqsUpTo(Bytes, MaxSeqLen), o \in 0..MaxCoord, l \in 0..MaxCoord}
    \cup {<<TestSequence, o, l>> : o \in 0..7, l \in 0..7}

DInit ==
    /\ \E in \in {i \in DecompressInputs : i[2] <= i[3]} :
          /\ d_sequence = in[1]
          /\ d_offset = in[2]
          /\ d_limit = in[3]
    /\ d_shifted_offset = 0
    /\ d_shifted_limit = 0
    /\ d_pc = "offset"

DIdle ==
    /\ d_sequence = <<>>
    /\ d_offset = 0
    /\ d_limit = 0
    /\ d_shifted_offset = 0
    /\ d_shifted_limit = 0
    /\ d_pc = "idle"

DFindOffset ==
    /\ d_pc = "offset"
    /\ d_shifted_offset' = FindOffset(d_offset, d_sequence)
    /\ d_pc' = "limit"
    /\ UNCHANGED <<d_sequence, d_offset, d_limit, d_shifted_limit, notDecompress>>

DFindLimit ==
    /\ d_pc = "limit"
    /\ d_shifted_limit' = FindLimit(d_offset, d_limit, d_sequence, d_shifted_offset)
    /\ d_pc' = "done"
    /\ UNCHANGED <<d_sequence, d_offset, d_limit, d_shifted_offset, notDecompress>>

DNext == DFindOffset \/ DFindLimit

-----------------------------------------------------------------------------
(* FastaSequenceIndex                                                      *)

\* Most records in a FASTA file.
MaxRecords == 3
\* Largest channel bound of build_parallel.
MaxChannelSize == 2
\* The read ids, the bases and the sequences FASTA records are drawn from.
ReadIds == {"r1", "r2"}
Bases == {"A", "C"}
ReadSeqs == {<<>>, <<"A">>, <<"C", "A">>}
\* The delimiter written after every sequence.
Newline == "\n"

FastaRecords == [id : ReadIds, seq : ReadSeqs]

\* HashMap::new().
EmptyIndex == [id \in {} |-> 0]

\* self.index.get(id): is there an entry.
Contains(index, id) == id \in DOMAIN index

\* index.insert(id, slice): the map afterwards (an old entry is replaced).
Insert(index, id, slice) ==
    [k \in (DOMAIN index) \cup {id} |-> IF k = id THEN slice ELSE index[k]]

\* A plausible slip: the delimiter is not counted in the running offset.
NextOffsetNoDelimiter(offset, len) == offset + len

\* offset += u64::try_from(len).unwrap() + 1
NextOffset(offset, len) == offset + len + 1

\* writer.write_all(record.seq()); writer.write_all(&[b'\n'])
Written(file, seq) == (file \o seq) \o <<Newline>>

\* FileSlice { offset, len }
FileSlice(offset, len) == [offset |-> offset, len |-> len]

\* build, the body of the loop over reader.records(). The assert comes
\* last: on a duplicate id the bytes are written and the entry replaced,
\* then the thread panics.
BuildAppendRecord(record, file, index, offset) ==
    LET len == Len(record.seq)
    IN  [ file   |-> Written(file, record.seq),
          index  |-> Insert(index, record.id, FileSlice(offset, len)),
          offset |-> NextOffset(offset, len),
          pc     |-> IF Contains(index, record.id) THEN "panicked" ELSE "running" ]

\* A plausible slip in the second copy of the loop body: the running offset
\* is not advanced past the delimiter.
WriterAppendRecordNoDelimiter(record, file, index, offset) ==
    LET len == Len(record.seq)
    IN  [ file   |-> Written(file, record.seq),
          index  |-> Insert(index, record.id, FileSlice(offset, len)),
          offset |-> NextOffsetNoDelimiter(offset, len),
          pc     |-> IF Contains(index, record.id) THEN "panicked" ELSE "running" ]

\* build_parallel, the body of the writer thread's loop over
\* receiver.recv(): a copy of the loop body of build.
WriterAppendRecord(record, file, index, offset) ==
    LET len == Len(record.seq)
    IN  [ file   |-> Written(file, record.seq),
          index  |-> Insert(index, record.id, FileSlice(offset, len)),
          offset |-> NextOffset(offset, len),
          pc     |-> IF Contains(index, record.id) THEN "panicked" ELSE "running" ]

\* A Vec<u8> of the caller: its bytes, whether it owns an allocation
\* (capacity > 0), and whether that allocation has been freed under it.
\* Vec::new(), as in main.rs:213.
NewVec == [bytes |-> <<>>, allocated |-> FALSE, dangling |-> FALSE]

\* What the caller's Vec holds before the first call: a new Vec, or one in use.
InitialOutputs == {NewVec, [bytes |-> <<"C">>, allocated |-> TRUE, dangling |-> FALSE]}

\* No call of get_sequence yet.
NoCall == [self |-> "none", id |-> "none"]

\* A byte that is no base: what a byte of freed memory may read as.
FreedByte == "?"

\* bytes with its first k bytes overwritten.
Clobbered(bytes, k) == [i \in 1..Len(bytes) |-> IF i <= k THEN FreedByte ELSE bytes[i]]

\* What a freed buffer that held bytes may read as: the allocator keeps its
\* bookkeeping in the head of a freed chunk and hands the chunk out again,
\* so any number of leading bytes may have been overwritten (none included).
FreedContents(bytes) == {Clobbered(bytes, k) : k \in 0..Len(bytes)}

\* self.file.read_exact_at(buf[..len], offset): the bytes read into the buffer.
ReadExactAt(file, offset, len) == Slice(file, offset, offset + len)

\* A plausible slip: a missing id is answered with an empty sequence.
LookupMissingAsEmpty(index, id) ==
    IF Contains(index, id) THEN index[id] ELSE FileSlice(0, 0)

\* self.index.get(id): Some(file_slice), or None, written NoSlice.
NoSlice == [offset |-> -1, len |-> -1]
Lookup(index, id) == IF Contains(index, id) THEN index[id] ELSE NoSlice

\* get_sequence(id, output) on the index (file, index): the set of outcomes
\* [pc, output]. unwrap panics on a missing id and on a short read.
\* output.clear() and output.reserve(len) leave a Vec that owns an
\* allocation unless len = 0 and it owned none. The last statement,
\*     *output = Vec::from_raw_parts(buffer, len, capacity),
\* builds a second Vec on the buffer of the first and then drops the first,
\* which frees the buffer: the Vec left in output points to freed memory,
\* and its bytes may read as the bytes just read or as anything else. A call
\* on a Vec that is dangling already frees the buffer a second time, which
\* the allocator may answer by aborting the process.
get_sequence(file, index, id, output) ==
    LET file_slice == Lookup(index, id)
        allocated  == output.allocated \/ file_slice.len > 0
    IN  IF file_slice = NoSlice \/ file_slice.offset + file_slice.len > Len(file)
        THEN {[pc |-> "panicked", output |-> output]}
        ELSE IF ~allocated
        THEN {[pc |-> "ready",
               output |-> [bytes |-> ReadExactAt(file, file_slice.offset, file_slice.len),
                           allocated |-> FALSE, dangling |-> FALSE]]}
        ELSE {[pc |-> "ready",
               output |-> [bytes |-> b, allocated |-> TRUE, dangling |-> TRUE]] :
                  b \in FreedContents(ReadExactAt(file, file_slice.offset, file_slice.len))}
             \cup (IF output.dangling
                   THEN {[pc |-> "aborted", output |-> output]} ELSE {})

IInit ==
    /\ fasta \in SeqsUpTo(FastaRecords, MaxRecords)
    /\ b_next = 0 /\ b_file = <<>> /\ b_index = EmptyIndex /\ b_offset = 0
    /\ b_pc = "running"
    /\ channel_size \in 0..MaxChannelSize
    /\ channel = <<>>
    /\ r_next = 0 /\ r_pc = "running"
    /\ w_file = <<>> /\ w_index = EmptyIndex /\ w_offset = 0
    /\ w_pc = "running"
    /\ q_output \in InitialOutputs
    /\ q_last = NoCall
    /\ q_pc = "ready"

IIdle ==
    /\ fasta = <<>>
    /\ b_next = 0 /\ b_file = <<>> /\ b_index = EmptyIndex /\ b_offset = 0
    /\ b_pc = "idle"
    /\ channel_size = 0
    /\ channel = <<>>
    /\ r_next = 0 /\ r_pc = "idle"
    /\ w_file = <<>> /\ w_index = EmptyIndex /\ w_offset = 0
    /\ w_pc = "idle"
    /\ q_output = NewVec
    /\ q_last = NoCall
    /\ q_pc = "idle"

\* build: one iteration of the loop over reader.records().
BuildAppend ==
    /\ b_pc = "running"
    /\ b_next < Len(fasta)
    /\ LET a == BuildAppendRecord(fasta[b_next + 1], b_file, b_index, b_offset)
       IN  /\ b_file' = a.file
           /\ b_index' = a.index
           /\ b_offset' = a.offset
           /\ b_pc' = a.pc
    /\ b_next' = b_next + 1
    /\ UNCHANGED <<fasta, pVars, qVars, notIndex>>

\* build: the records are exhausted, writer.into_inner() and return.
BuildReturn ==
    /\ b_pc = "running"
    /\ b_next = Len(fasta)
    /\ b_pc' = "done"
    /\ UNCHANGED <<fasta, b_next, b_file, b_index, b_offset, pVars, qVars, notIndex>>

\* Reader thread: sender.send(record) of the next record; the send blocks
\* while the channel is full. A channel of bound 0 hands over in
\* ReaderHandsOver.
ReaderSend ==
    /\ r_pc = "running"
    /\ w_pc = "running"
    /\ r_next < Len(fasta)
    /\ Len(channel) < channel_size
    /\ channel' = Append(channel, fasta[r_next + 1])
    /\ r_next' = r_next + 1
    /\ UNCHANGED <<fasta, bVars, channel_size, r_pc, w_file, w_index, w_offset, w_pc, qVars, notIndex>>

\* Reader thread: the receiver is gone (the writer thread panicked), send
\* returns Err and unwrap panics.
ReaderSendFails ==
    /\ r_pc = "running"
    /\ w_pc = "panicked"
    /\ r_next < Len(fasta)
    /\ r_pc' = "panicked"
    /\ UNCHANGED <<fasta, bVars, channel_size, channel, r_next, w_file, w_index, w_offset, w_pc, qVars, notIndex>>

\* Reader thread: the records are exhausted, the closure ends and drops the
\* sender.
ReaderEnd ==
    /\ r_pc = "running"
    /\ r_next = Len(fasta)
    /\ r_pc' = "done"
    /\ UNCHANGED <<fasta, bVars, channel_size, channel, r_next, w_file, w_index, w_offset, w_pc, qVars, notIndex>>

\* Writer thread: receiver.recv() returns a record, one iteration of the loop.
WriterRecv ==
    /\ w_pc = "running"
    /\ channel # <<>>
    /\ LET a == WriterAppendRecord(Head(channel), w_file, w_index, w_offset)
       IN  /\ w_file' = a.file
           /\ w_index' = a.index
           /\ w_offset' = a.offset
           /\ w_pc' = a.pc
    /\ channel' = Tail(channel)
    /\ UNCHANGED <<fasta, bVars, channel_size, r_next, r_pc, qVars, notIndex>>

\* A channel of bound 0: a send completes only with a receiver waiting in
\* recv, and the record is handed over.
ReaderHandsOver ==
    /\ channel_size = 0
    /\ r_pc = "running"
    /\ w_pc = "running"
    /\ r_next < Len(fasta)
    /\ LET a == WriterAppendRecord(fasta[r_next + 1], w_file, w_index, w_offset)
       IN  /\ w_file' = a.file
           /\ w_index' = a.index
           /\ w_offset' = a.offset
           /\ w_pc' = a.pc
    /\ r_next' = r_next + 1
    /\ UNCHANGED <<fasta, bVars, channel_size, channel, r_pc, qVars, notIndex>>

\* Writer thread: the channel is empty and the sender dropped, recv returns
\* Err and the thread returns (writer, index).
WriterEnd ==
    /\ w_pc = "running"
    /\ channel = <<>>
    /\ r_pc \in {"done", "panicked"}
    /\ w_pc' = "done"
    /\ UNCHANGED <<fasta, bVars, channel_size, channel, r_next, r_pc, w_file, w_index, w_offset, qVars, notIndex>>

-----------------------------------------------------------------------------
(* wtdbg2_ctg_lay: lines and contexts                                      *)

\* Option: None and Some(x).
None == <<>>
Some(x) == <<x>>

\* A String or a Vec<u8> is the sequence of its characters, each a string
\* of length 1.
Tab == "\t"
Space == " "
DigitChars == <<"0", "1", "2", "3", "4", "5", "6", "7", "8", "9">>
IsDigit(c) == \E i \in 1..10 : DigitChars[i] = c
DigitValue(c) == (CHOOSE i \in 1..10 : DigitChars[i] = c) - 1

\* Display for u64: the decimal digits. A value kept as its two's
\* complement (see U64Max) prints as a number of twenty digits, which is
\* written 2^64- and the digits of what is missing.
RECURSIVE Display(_)
Display(n) ==
    IF n < 0 THEN <<"2", "^", "6", "4", "-">> \o Display(0 - n)
    ELSE IF n < 10 THEN <<DigitChars[n + 1]>>
    ELSE Append(Display(n \div 10), DigitChars[(n % 10) + 1])

\* str::parse::<u64>: ParseError for what is not a number (the empty
\* string, a sign alone, any character that is no digit); a leading + is
\* accepted.
ParseError == 0 - 1
RECURSIVE ParseDigits(_, _)
ParseDigits(chars, value) ==
    IF chars = <<>> THEN value
    ELSE IF ~IsDigit(Head(chars)) THEN ParseError
    ELSE ParseDigits(Tail(chars), 10 * value + DigitValue(Head(chars)))
parse(chars) ==
    LET digits == IF chars # <<>> /\ Head(chars) = "+" THEN Tail(chars) ELSE chars
    IN  IF digits = <<>> THEN ParseError ELSE ParseDigits(digits, 0)

\* str::split(separator), collected: the columns, at least one.
RECURSIVE SplitFrom(_, _, _)
SplitFrom(chars, separator, column) ==
    IF chars = <<>> THEN <<column>>
    ELSE IF Head(chars) = separator
    THEN <<column>> \o SplitFrom(Tail(chars), separator, <<>>)
    ELSE SplitFrom(Tail(chars), separator, Append(column, Head(chars)))
split(chars, separator) == SplitFrom(chars, separator, <<>>)

\* Wtdbg2CtgLayLine
ContigLine(name, node_count, length) ==
    [kind |-> "Contig", name |-> name, node_count |-> node_count, length |-> length]
EdgeLine(offset, from_node, from_direction, to_node, to_direction) ==
    [kind |-> "Edge", offset |-> offset, from_node |-> from_node,
     from_direction |-> from_direction, to_node |-> to_node,
     to_direction |-> to_direction]
AlignmentLine(read_id, direction, offset, length, original_length) ==
    [kind |-> "Alignment", read_id |-> read_id, direction |-> direction,
     offset |-> offset, length |-> length, original_length |-> original_length]

\* from_str never returns Err: it panics, by unwrap or by panic!.
Panic == [kind |-> "panic"]

\* s[k..] of a column, or the empty string when the column is shorter
\* (the slice panics then, as the parse of the empty string does).
From(column, k) == SubSeq(column, k + 1, Len(column))

\* Wtdbg2CtgLayLine::from_str, the branch of '>': the columns of s[1..]
\* between spaces.
from_str_contig(s) ==
    LET columns == split(Tail(s), Space)
    IN  IF Len(columns) < 3 THEN Panic
        ELSE LET node_count == parse(From(columns[2], 6))
                 length     == parse(From(columns[3], 4))
             IN  IF node_count = ParseError \/ length = ParseError THEN Panic
                 ELSE ContigLine(columns[1], node_count, length)

\* "+" => true, "-" => false, _ => panic!
IsDirection(column) == column = <<"+">> \/ column = <<"-">>

\* The branch of 'E': the columns of s[1..] between tabs, the first skipped.
from_str_edge(s) ==
    LET columns == split(Tail(s), Tab)
    IN  IF Len(columns) < 6 THEN Panic
        ELSE IF parse(columns[2]) = ParseError \/ ~IsDirection(columns[4])
                \/ ~IsDirection(columns[6])
        THEN Panic
        ELSE EdgeLine(parse(columns[2]), columns[3], columns[4] = <<"+">>,
                      columns[5], columns[6] = <<"+">>)

\* The branch of 'S': an alignment gets original_length: length.
from_str_alignment(s) ==
    LET columns == split(Tail(s), Tab)
    IN  IF Len(columns) < 5 THEN Panic
        ELSE IF ~IsDirection(columns[3]) \/ parse(columns[4]) = ParseError
                \/ parse(columns[5]) = ParseError
        THEN Panic
        ELSE AlignmentLine(columns[2], columns[3] = <<"+">>, parse(columns[4]),
                           parse(columns[5]), parse(columns[5]))

\* Wtdbg2CtgLayLine::from_str
from_str(s) ==
    IF s = <<>> THEN Panic
    ELSE IF Head(s) = ">" THEN from_str_contig(s)
    ELSE IF Head(s) = "E" THEN from_str_edge(s)
    ELSE IF Head(s) = "S" THEN from_str_alignment(s)
    ELSE Panic

DirectionChar(direction) == IF direction THEN "+" ELSE "-"

\* A plausible slip: the contig line is written with tabs, as the edge and
\* the alignment lines are.
to_string_contig_tabs(line) ==
    <<">">> \o line.name \o <<Tab, "n", "o", "d", "e", "s", "=">>
        \o Display(line.node_count) \o <<Tab, "l", "e", "n", "=">>
        \o Display(line.length)

\* format!(">{name} nodes={node_count} len={length}")
to_string_contig(line) ==
    <<">">> \o line.name \o <<Space, "n", "o", "d", "e", "s", "=">>
        \o Display(line.node_count) \o <<Space, "l", "e", "n", "=">>
        \o Display(line.length)

\* Wtdbg2CtgLayLine::to_string: original_length is not printed, and the
\* alignment ends with a tab.
to_string(line) ==
    IF line.kind = "Contig" THEN to_string_contig(line)
    ELSE IF line.kind = "Edge"
    THEN <<"E", Tab>> \o Display(line.offset) \o <<Tab>> \o line.from_node
            \o <<Tab, DirectionChar(line.from_direction), Tab>> \o line.to_node
            \o <<Tab, DirectionChar(line.to_direction)>>
    ELSE <<"S", Tab>> \o line.read_id \o <<Tab, DirectionChar(line.direction), Tab>>
            \o Display(line.offset) \o <<Tab>> \o Display(line.length) \o <<Tab>>

\* LineContext::default()
DefaultContext ==
    [contig_index |-> -1, edge_index |-> -1, alignment_index |-> -1,
     previous_contig_edge_count |-> 0, previous_edge_alignment_count |-> 0]

\* A plausible slip: the edge branch does not look at the alignment count of
\* the edge before.
directly_precedes_any_next_edge(self, other) ==
    IF self.contig_index # other.contig_index
    THEN IF self.contig_index # other.contig_index - 1
         THEN FALSE
         ELSE /\ self.edge_index = other.previous_contig_edge_count - 1
              /\ self.alignment_index = other.previous_edge_alignment_count - 1
    ELSE IF self.edge_index # other.edge_index
    THEN self.edge_index = other.edge_index - 1
    ELSE IF self.alignment_index # other.alignment_index
    THEN self.alignment_index = other.alignment_index - 1
    ELSE FALSE

\* A plausible slip: the edge branch does not let the contig line itself
\* pass, whose alignment_index is -1 whatever the count carried over says.
directly_precedes_counting_from_contig(self, other) ==
    IF self.contig_index # other.contig_index
    THEN IF self.contig_index # other.contig_index - 1
         THEN FALSE
         ELSE /\ self.edge_index = other.previous_contig_edge_count - 1
              /\ self.alignment_index = other.previous_edge_alignment_count - 1
    ELSE IF self.edge_index # other.edge_index
    THEN IF self.edge_index # other.edge_index - 1
         THEN FALSE
         ELSE self.alignment_index = other.previous_edge_alignment_count - 1
    ELSE IF self.alignment_index # other.alignment_index
    THEN self.alignment_index = other.alignment_index - 1
    ELSE FALSE

\* LineContext::directly_precedes
directly_precedes(self, other) ==
    IF self.contig_index # other.contig_index
    THEN IF self.contig_index # other.contig_index - 1
         THEN FALSE
         ELSE /\ self.edge_index = other.previous_contig_edge_count - 1
              /\ self.alignment_index = other.previous_edge_alignment_count - 1
    ELSE IF self.edge_index # other.edge_index
    THEN IF self.edge_index # other.edge_index - 1
         THEN FALSE
         ELSE \/ self.alignment_index = other.previous_edge_alignment_count - 1
              \/ self.edge_index = -1
    ELSE IF self.alignment_index # other.alignment_index
    THEN self.alignment_index = other.alignment_index - 1
    ELSE FALSE

\* i64::cmp
CmpInt(a, b) == IF a < b THEN "Less" ELSE IF a > b THEN "Greater" ELSE "Equal"

\* Ord::cmp for LineContext; "panic" when an assert_eq! fails.
cmp(self, other) ==
    IF CmpInt(self.contig_index, other.contig_index) # "Equal"
    THEN CmpInt(self.contig_index, other.contig_index)
    ELSE IF self.previous_contig_edge_count # other.previous_contig_edge_count
    THEN "panic"
    ELSE IF CmpInt(self.edge_index, other.edge_index) # "Equal"
    THEN CmpInt(self.edge_index, other.edge_index)
    ELSE IF self.previous_edge_alignment_count # other.previous_edge_alignment_count
    THEN "panic"
    ELSE CmpInt(self.alignment_index, other.alignment_index)

\* BTreeMap<LineContext, _>, as the sequence of its entries in key order.
\* insert searches the keys from the smallest on, comparing the new key with
\* each (a map of at most 11 entries is a single node): <<map, result>> with
\* result "inserted", "replaced" (insert returned Some) or "panic" (cmp).
RECURSIVE BTreeInsertFrom(_, _, _)
BTreeInsertFrom(map, entry, i) ==
    IF i > Len(map) THEN <<Append(map, entry), "inserted">>
    ELSE LET c == cmp(entry.context, map[i].context)
         IN  IF c = "panic" THEN <<map, "panic">>
             ELSE IF c = "Equal"
             THEN <<[map EXCEPT ![i] = entry], "replaced">>
             ELSE IF c = "Less"
             THEN <<SubSeq(map, 1, i - 1) \o <<entry>> \o SubSeq(map, i, Len(map)),
                    "inserted">>
             ELSE BTreeInsertFrom(map, entry, i + 1)

BTreeInsert(map, entry) == BTreeInsertFrom(map, entry, 1)

\* A u64 is kept as the integer it is, and one that has wrapped around or
\* sits just below 2^64 as its two's complement: u64::MAX is -1.
U64Max == 0 - 1

\* (a as f64 / b as f64).round() as u64 on small non-negative integers: the
\* nearest integer, halves away from zero. NaN (0/0) casts to 0 and
\* infinity to u64::MAX.
RoundDiv(a, b) ==
    IF b = 0 THEN (IF a = 0 THEN 0 ELSE U64Max) ELSE (2 * a + b) \div (2 * b)

\* reverse_complement on one byte; "panic" for an unknown dna character.
Complement(c) ==
    IF c = "A" THEN "T" ELSE IF c = "C" THEN "G" ELSE IF c = "G" THEN "C"
    ELSE IF c = "T" THEN "A" ELSE IF c = "N" THEN "N" ELSE "panic"

\* A plausible slip: the complement is taken and the order kept.
complement_in_place(dna) ==
    IF \E i \in 1..Len(dna) : Complement(dna[i]) = "panic" THEN <<"panic">>
    ELSE [i \in 1..Len(dna) |-> Complement(dna[i])]

\* reverse_complement: <<"panic">> stands for the panic.
reverse_complement(dna) ==
    IF \E i \in 1..Len(dna) : Complement(dna[i]) = "panic" THEN <<"panic">>
    ELSE [i \in 1..Len(dna) |-> Complement(dna[Len(dna) + 1 - i])]

-----------------------------------------------------------------------------
(* A call of one function on its own                                       *)

MaxIndex == 1
MaxCount == 1

\* LineContext, its indices from -1 on.
Contexts ==
    [contig_index : -1..MaxIndex, edge_index : -1..MaxIndex,
     alignment_index : -1..MaxIndex,
     previous_contig_edge_count : 0..MaxCount,
     previous_edge_alignment_count : 0..MaxCount]

MaxNumber == 10
MaxDna == 3

\* Contig lines to print: a name, one of two characters and one with a
\* space in it, and numbers of one and two digits.
ContigNames == {<<"c">>, <<"c", "1">>, <<"c", Space>>}
ContigLines ==
    {ContigLine(name, node_count, length) :
        name \in ContigNames, node_count \in 0..MaxNumber, length \in 0..MaxNumber}

\* Lines to parse: a contig line with spaces and one with tabs.
ContigWithSpaces ==
    <<">", "c", "1", Space, "n", "o", "d", "e", "s", "=", "2", Space, "l", "e", "n", "=", "0">>
ContigWithTabs ==
    <<">", "c", "1", Tab, "n", "o", "d", "e", "s", "=", "2", Tab, "l", "e", "n", "=", "0">>

\* The bytes of a dna string: the bases, N, and one that is neither.
DnaBytes == {"A", "C", "G", "T", "N", "X"}

\* No line: a from_str call whose argument was not printed by to_string.
NoLine == [kind |-> "none"]

\* The calls: the function and its arguments.
DirectlyPrecedesCalls ==
    {[fn |-> "directly_precedes", self |-> a, other |-> b] : a \in Contexts, b \in Contexts}
ToStringCalls == {[fn |-> "to_string", line |-> line] : line \in ContigLines}
FromStrCalls ==
    {[fn |-> "from_str", s |-> s, printed |-> NoLine] : s \in {ContigWithSpaces, ContigWithTabs}}
ReverseComplementCalls ==
    {[fn |-> "reverse_complement", dna |-> dna] :
        dna \in SeqsUpTo(DnaBytes, MaxDna) \cup {<<"A", "C", "G", "T", "N">>}}

Calls ==
    DirectlyPrecedesCalls \cup ToStringCalls \cup FromStrCalls \cup ReverseComplementCalls

NoCallOfLine == [fn |-> "none"]

LInit ==
    /\ l_call \in Calls
    /\ l_result = None

\* No function is called on its own.
LIdle ==
    /\ l_call = NoCallOfLine
    /\ l_result = None

\* self.directly_precedes(&other) returns.
CallDirectlyPrecedes ==
    /\ l_call.fn = "directly_precedes"
    /\ l_result = None
    /\ l_result' = Some(directly_precedes(l_call.self, l_call.other))
    /\ UNCHANGED <<l_call, notLine>>

\* line.to_string() returns.
CallToString ==
    /\ l_call.fn = "to_string"
    /\ l_result = None
    /\ l_result' = Some(to_string(l_call.line))
    /\ UNCHANGED <<l_call, notLine>>

\* What to_string returned is handed to from_str.
CallFromStrOfPrinted ==
    /\ l_call.fn = "to_string"
    /\ l_result # None
    /\ l_call' = [fn |-> "from_str", s |-> l_result[1], printed |-> l_call.line]
    /\ l_result' = None
    /\ UNCHANGED notLine

\* Wtdbg2CtgLayLine::from_str(s) returns, or panics.
CallFromStr ==
    /\ l_call.fn = "from_str"
    /\ l_result = None
    /\ l_result' = Some(from_str(l_call.s))
    /\ UNCHANGED <<l_call, notLine>>

\* reverse_complement(dna) returns, or panics.
CallReverseComplement ==
    /\ l_call.fn = "reverse_complement"
    /\ l_result = None
    /\ l_result' = Some(reverse_complement(l_call.dna))
    /\ UNCHANGED <<l_call, notLine>>

-----------------------------------------------------------------------------
(* main: the pipeline of threads and bounded channels                      *)

MaxLines == 4
MaxQueueSize == 2
MaxThreads == 2

\* The lines the input file is drawn from, each well-formed: a contig
\* ">c nodes=2 len=5", edges at offset 0 and 1, and alignments of the
\* first compressed base of read r in either direction, followed by the
\* compressed sequence as the assembler writes it.
ContigInputs ==
    {<<">", "c", Space, "n", "o", "d", "e", "s", "=", "2", Space, "l", "e", "n", "=", "5">>}
EdgeInputs ==
    {<<"E", Tab, offset, Tab, "a", Tab, "+", Tab, "b", Tab, "-">> : offset \in {"0", "1"}}
AlignmentInputs ==
    {<<"S", Tab, "r", Tab, direction, Tab, "0", Tab, "1", Tab, "A">> :
        direction \in {"+", "-"}}
InputLines == ContigInputs \cup EdgeInputs \cup AlignmentInputs

\* The reads file the index is built from.
NormalFasta == <<[id |-> <<"r">>, seq |-> <<"A", "A">>]>>

\* The five threads that are one of a kind.
Stages == {"input_reader", "input_parser", "read_sequence_reader", "sorter",
           "output_writer"}

\* A plausible slip: a thread that panics keeps its channel ends.
Gone_when_returned(state) == state = "done"

\* A thread has returned or has unwound from a panic: the channel ends it
\* owned are dropped.
Gone(state) == state \in {"done", "panicked"}

\* FastaSequenceIndex::build_parallel(normal_reads, index_file) run to its
\* end on the records from position i on.
RECURSIVE BuildParallelFrom(_, _, _)
BuildParallelFrom(records, i, acc) ==
    IF i > Len(records) \/ acc.pc # "running" THEN acc
    ELSE BuildParallelFrom(records, i + 1,
                           WriterAppendRecord(records[i], acc.file, acc.index, acc.offset))

\* normal_sequence_index, as main has it when it starts the threads.
NormalSequenceIndex ==
    BuildParallelFrom(NormalFasta, 1,
                      [file |-> <<>>, index |-> EmptyIndex, offset |-> 0, pc |-> "running"])

\* The index variables after build_parallel has returned normal_sequence_index.
IBuilt ==
    /\ fasta = NormalFasta
    /\ b_next = 0 /\ b_file = <<>> /\ b_index = EmptyIndex /\ b_offset = 0
    /\ b_pc = "idle"
    /\ channel_size = 0
    /\ channel = <<>>
    /\ r_next = Len(NormalFasta) /\ r_pc = "done"
    /\ w_file = NormalSequenceIndex.file
    /\ w_index = NormalSequenceIndex.index
    /\ w_offset = NormalSequenceIndex.offset
    /\ w_pc = "done"
    /\ q_output = NewVec
    /\ q_last = NoCall
    /\ q_pc = "idle"

\* The locals of the sorter thread before its loop.
SorterLocals ==
    [current_context |-> DefaultContext,
     alignment_count |-> 0,
     original_alignment_length_sum |-> 0,
     shifted_alignment_length_sum |-> 0,
     original_previous_offset |-> 0,
     shifted_previous_offset |-> 0]

\* The locals of the output writer thread before its loop.
OutputWriterLocals ==
    [current_offset |-> 0, current_last_edge_length |-> 0, current_contig_line |-> None]

\* The threads as crossbeam::scope has spawned them, the closure returned
\* and its own channel ends dropped.
MStart ==
    /\ overflow_checks = "undetermined"
    /\ pc = [s \in Stages |-> "running"]
    /\ line_number = 0
    /\ input_queue = <<>>
    /\ context = DefaultContext
    /\ alignment_queue = <<>>
    /\ decorated_queue = <<>>
    /\ decompressor = [thread_index \in 1..compute_threads |->
                          [pc |-> "running", holds |-> None]]
    /\ decompressed_queue = <<>>
    /\ sorter = SorterLocals
    /\ sorted_lines = <<>>
    /\ output_queue = <<>>
    /\ output_writer = OutputWriterLocals
    /\ tmp_file = <<>>
    /\ output_file = <<>>
    /\ stamped = <<>>
    /\ forwarded = <<>>

MInit ==
    /\ input_lines \in SeqsUpTo(InputLines, MaxLines)
    /\ queue_size \in 1..MaxQueueSize
    /\ compute_threads \in 1..MaxThreads
    /\ MStart

\* main is not run.
MIdle ==
    /\ input_lines = <<>>
    /\ queue_size = 1
    /\ compute_threads = 1
    /\ overflow_checks = "undetermined"
    /\ pc = [s \in Stages |-> "idle"]
    /\ line_number = 0
    /\ input_queue = <<>>
    /\ context = DefaultContext
    /\ alignment_queue = <<>>
    /\ decorated_queue = <<>>
    /\ decompressor = [thread_index \in 1..1 |-> [pc |-> "idle", holds |-> None]]
    /\ decompressed_queue = <<>>
    /\ sorter = SorterLocals
    /\ sorted_lines = <<>>
    /\ output_queue = <<>>
    /\ output_writer = OutputWriterLocals
    /\ tmp_file = <<>>
    /\ output_file = <<>>
    /\ stamped = <<>>
    /\ forwarded = <<>>

\* ---- input_reader (main.rs:115-125)

\* One iteration: the next line is sent.
InputReaderSend ==
    /\ pc["input_reader"] = "running"
    /\ line_number < Len(input_lines)
    /\ ~Gone(pc["input_parser"])
    /\ Len(input_queue) < queue_size
    /\ input_queue' = Append(input_queue, input_lines[line_number + 1])
    /\ line_number' = line_number + 1
    /\ UNCHANGED <<cfgVars, overflow_checks, pc, context, alignment_queue, decorated_queue, decompressor,
                   decompressed_queue, sorter, sorted_lines, output_queue, output_writer,
                   tmp_file, output_file, stamped, forwarded, notMain>>

\* send returns Err, the receiver being dropped: unwrap panics.
InputReaderSendFails ==
    /\ pc["input_reader"] = "running"
    /\ line_number < Len(input_lines)
    /\ Gone(pc["input_parser"])
    /\ pc' = [pc EXCEPT !["input_reader"] = "panicked"]
    /\ UNCHANGED <<cfgVars, overflow_checks, line_number, input_queue, context, alignment_queue,
                   decorated_queue, decompressor, decompressed_queue, sorter,
                   sorted_lines, output_queue, output_writer, tmp_file, output_file,
                   stamped, forwarded, notMain>>

\* The lines are through: the thread returns and drops input_sender.
InputReaderEnd ==
    /\ pc["input_reader"] = "running"
    /\ line_number = Len(input_lines)
    /\ pc' = [pc EXCEPT !["input_reader"] = "done"]
    /\ UNCHANGED <<cfgVars, overflow_checks, line_number, input_queue, context, alignment_queue,
                   decorated_queue, decompressor, decompressed_queue, sorter,
                   sorted_lines, output_queue, output_writer, tmp_file, output_file,
                   stamped, forwarded, notMain>>

\* ---- input_parser (main.rs:137-197)

\* A plausible slip: a contig line carries over the number of edges only,
\* and not the number of alignments of the last edge.
ContigContext_edge_count_only(c) ==
    [contig_index |-> c.contig_index + 1, edge_index |-> -1, alignment_index |-> -1,
     previous_contig_edge_count |->
        IF c.contig_index # -1 THEN c.edge_index + 1 ELSE c.previous_contig_edge_count,
     previous_edge_alignment_count |-> c.previous_edge_alignment_count]

\* The context after a contig line.
ContigContext(c) ==
    [contig_index |-> c.contig_index + 1, edge_index |-> -1, alignment_index |-> -1,
     previous_contig_edge_count |->
        IF c.contig_index # -1 THEN c.edge_index + 1 ELSE c.previous_contig_edge_count,
     previous_edge_alignment_count |->
        IF c.contig_index # -1 THEN c.alignment_index + 1
        ELSE c.previous_edge_alignment_count]

\* A plausible slip: an edge line takes the count of alignments also when
\* it is the first edge of its contig.
EdgeContext_always_counts(c) ==
    [c EXCEPT !.previous_edge_alignment_count = c.alignment_index + 1,
              !.edge_index = @ + 1,
              !.alignment_index = -1]

\* The context after an edge line.
EdgeContext(c) ==
    [c EXCEPT !.previous_edge_alignment_count =
                  IF c.edge_index # -1 THEN c.alignment_index + 1 ELSE @,
              !.edge_index = @ + 1,
              !.alignment_index = -1]

\* A plausible slip: the alignment index is not advanced.
AlignmentContextKept(c) == c

\* A plausible slip: an alignment line keeps the count of the alignments of
\* its edge up to date.
AlignmentContext_counting(c) ==
    [c EXCEPT !.alignment_index = @ + 1,
              !.previous_edge_alignment_count = c.alignment_index + 2]

\* The context after an alignment line.
AlignmentContext(c) == [c EXCEPT !.alignment_index = @ + 1]

\* A plausible slip: the alignment branch asserts the contig only.
ParserAsserts_contig_only(c, line) ==
    IF line.kind \in {"Edge", "Alignment"} THEN c.contig_index >= 0 ELSE TRUE

\* The asserts of the edge and the alignment branch.
ParserAsserts(c, line) ==
    IF line.kind = "Edge" THEN c.contig_index >= 0
    ELSE IF line.kind = "Alignment" THEN c.contig_index >= 0 /\ c.edge_index >= 0
    ELSE TRUE

\* Wtdbg2CtgLayLineWithContext { line, context }
WithContext(line, c) == [line |-> line, context |-> c]

\* A contig or an edge line is received, stamped and sent to the sorter.
InputParserForward ==
    /\ pc["input_parser"] = "running"
    /\ input_queue # <<>>
    /\ LET line == from_str(Head(input_queue))
           c    == IF line.kind = "Contig" THEN ContigContext(context)
                   ELSE EdgeContext(context)
       IN  /\ line.kind \in {"Contig", "Edge"}
           /\ ParserAsserts(context, line)
           /\ ~Gone(pc["sorter"])
           /\ Len(decompressed_queue) < queue_size
           /\ context' = c
           /\ decompressed_queue' =
                 Append(decompressed_queue,
                        [line |-> line, context |-> c, shifted_sequence |-> None])
           /\ stamped' = Append(stamped, WithContext(line, c))
    /\ input_queue' = Tail(input_queue)
    /\ UNCHANGED <<cfgVars, overflow_checks, pc, line_number, alignment_queue, decorated_queue,
                   decompressor, sorter, sorted_lines, output_queue, output_writer,
                   tmp_file, output_file, forwarded, notMain>>

\* An alignment line is received, stamped and sent to read_sequence_reader.
InputParserAlignment ==
    /\ pc["input_parser"] = "running"
    /\ input_queue # <<>>
    /\ LET line == from_str(Head(input_queue))
           c    == AlignmentContext(context)
       IN  /\ line.kind = "Alignment"
           /\ ParserAsserts(context, line)
           /\ ~Gone(pc["read_sequence_reader"])
           /\ Len(alignment_queue) < queue_size
           /\ context' = c
           /\ alignment_queue' = Append(alignment_queue, WithContext(line, c))
           /\ stamped' = Append(stamped, WithContext(line, c))
    /\ input_queue' = Tail(input_queue)
    /\ UNCHANGED <<cfgVars, overflow_checks, pc, line_number, decorated_queue, decompressor,
                   decompressed_queue, sorter, sorted_lines, output_queue,
                   output_writer, tmp_file, output_file, forwarded, notMain>>

\* from_str panics, an assert fails, or send returns Err because the
\* receiving thread is gone: the thread panics and drops its channel ends.
InputParserPanics ==
    /\ pc["input_parser"] = "running"
    /\ input_queue # <<>>
    /\ LET line == from_str(Head(input_queue))
       IN  \/ line.kind = "panic"
           \/ ~ParserAsserts(context, line)
           \/ line.kind \in {"Contig", "Edge"} /\ Gone(pc["sorter"])
           \/ line.kind = "Alignment" /\ Gone(pc["read_sequence_reader"])
    /\ input_queue' = Tail(input_queue)
    /\ pc' = [pc EXCEPT !["input_parser"] = "panicked"]
    /\ UNCHANGED <<cfgVars, overflow_checks, line_number, context, alignment_queue, decorated_queue,
                   decompressor, decompressed_queue, sorter, sorted_lines,
                   output_queue, output_writer, tmp_file, output_file, stamped,
                   forwarded, notMain>>

\* recv returns Err, the queue being empty and input_sender dropped.
InputParserEnd ==
    /\ pc["input_parser"] = "running"
    /\ input_queue = <<>>
    /\ Gone(pc["input_reader"])
    /\ pc' = [pc EXCEPT !["input_parser"] = "done"]
    /\ UNCHANGED <<cfgVars, overflow_checks, line_number, input_queue, context, alignment_queue,
                   decorated_queue, decompressor, decompressed_queue, sorter,
                   sorted_lines, output_queue, output_writer, tmp_file, output_file,
                   stamped, forwarded, notMain>>

\* ---- read_sequence_reader (main.rs:207-221)

\* The decompressor threads hold the receiving ends of decorated_queue.
DecompressorsGone ==
    \A thread_index \in DOMAIN decompressor : Gone(decompressor[thread_index].pc)

\* An alignment is received, its read fetched into a new Vec and both sent on.
ReadSequenceReaderSend ==
    /\ pc["read_sequence_reader"] = "running"
    /\ alignment_queue # <<>>
    /\ ~DecompressorsGone
    /\ Len(decorated_queue) < queue_size
    /\ LET line_with_context == Head(alignment_queue)
       IN  \E got \in get_sequence(w_file, w_index, line_with_context.line.read_id, NewVec) :
              /\ got.pc = "ready"
              /\ decorated_queue' =
                    Append(decorated_queue,
                           [line |-> line_with_context.line,
                            context |-> line_with_context.context,
                            sequence |-> got.output])
    /\ alignment_queue' = Tail(alignment_queue)
    /\ UNCHANGED <<cfgVars, overflow_checks, pc, line_number, input_queue, context, decompressor,
                   decompressed_queue, sorter, sorted_lines, output_queue,
                   output_writer, tmp_file, output_file, stamped, forwarded, notMain>>

\* get_sequence panics, or send returns Err because every decompressor is gone.
ReadSequenceReaderPanics ==
    /\ pc["read_sequence_reader"] = "running"
    /\ alignment_queue # <<>>
    /\ LET line_with_context == Head(alignment_queue)
       IN  \/ \E got \in get_sequence(w_file, w_index, line_with_context.line.read_id,
                                      NewVec) : got.pc = "panicked"
           \/ DecompressorsGone
    /\ alignment_queue' = Tail(alignment_queue)
    /\ pc' = [pc EXCEPT !["read_sequence_reader"] = "panicked"]
    /\ UNCHANGED <<cfgVars, overflow_checks, line_number, input_queue, context, decorated_queue,
                   decompressor, decompressed_queue, sorter, sorted_lines,
                   output_queue, output_writer, tmp_file, output_file, stamped,
                   forwarded, notMain>>

\* recv returns Err, the queue being empty and alignment_sender dropped.
ReadSequenceReaderEnd ==
    /\ pc["read_sequence_reader"] = "running"
    /\ alignment_queue = <<>>
    /\ Gone(pc["input_parser"])
    /\ pc' = [pc EXCEPT !["read_sequence_reader"] = "done"]
    /\ UNCHANGED <<cfgVars, overflow_checks, line_number, input_queue, context, alignment_queue,
                   decorated_queue, decompressor, decompressed_queue, sorter,
                   sorted_lines, output_queue, output_writer, tmp_file, output_file,
                   stamped, forwarded, notMain>>

\* ---- decompressor_{thread_index} (main.rs:225-274)

\* What a read of the bytes of a Vec yields: the bytes, or for a Vec that
\* points to freed memory any further overwriting of them.
ReadsOf(vec) == IF vec.dangling THEN FreedContents(vec.bytes) ELSE {vec.bytes}

\* Dropping a Vec frees its buffer; for one that points to freed memory
\* this is a second free, which may go unnoticed or abort the process.
DropOutcomes(dangling) == IF dangling THEN {"freed", "aborted"} ELSE {"freed"}

\* The process is aborted: every thread stops where it is.
Aborted ==
    /\ pc' = [s \in Stages |-> "aborted"]
    /\ decompressor' = [thread_index \in DOMAIN decompressor |->
                           [decompressor[thread_index] EXCEPT !.pc = "aborted"]]

\* The body of the loop up to the call of send, on the bytes seen by
\* decompress and the bytes seen by the copy: Some(the tuple to send), or
\* None when the slice is out of range or reverse_complement panics.
Decompressed(item, seen, copied) ==
    LET limit           == item.line.offset + item.line.length
        shifted         == decompress(item.line.offset, limit, seen)
        shifted_offset  == shifted[1]
        shifted_limit   == shifted[2]
        shifted_length  == shifted_limit - shifted_offset
        shifted_sequence == Slice(copied, shifted_offset, shifted_limit)
        owned           == IF item.line.direction THEN shifted_sequence
                           ELSE reverse_complement(shifted_sequence)
    IN  IF shifted_limit > Len(seen) \/ owned = <<"panic">> THEN None
        ELSE Some([line |-> AlignmentLine(item.line.read_id, item.line.direction,
                                          shifted_offset, shifted_length,
                                          item.line.original_length),
                   context |-> item.context,
                   shifted_sequence |-> Some(owned)])

\* A decorated alignment is received and decompressed; the thread goes on
\* to send the result, or panics and drops sequence while unwinding.
DecompressorRecv(thread_index) ==
    /\ decompressor[thread_index].pc = "running"
    /\ decorated_queue # <<>>
    /\ decorated_queue' = Tail(decorated_queue)
    /\ LET item == Head(decorated_queue)
       IN  \E seen \in ReadsOf(item.sequence) :
           \E copied \in ReadsOf([item.sequence EXCEPT !.bytes = seen]) :
              LET result == Decompressed(item, seen, copied)
              IN  IF result # None
                  THEN /\ decompressor' =
                             [decompressor EXCEPT ![thread_index] =
                                 [pc |-> "sending",
                                  holds |-> Some([result |-> result[1],
                                                  dangling |-> item.sequence.dangling])]]
                       /\ pc' = pc
                  ELSE \E dropped \in DropOutcomes(item.sequence.dangling) :
                          IF dropped = "aborted" THEN Aborted
                          ELSE /\ decompressor' =
                                     [decompressor EXCEPT ![thread_index] =
                                         [pc |-> "panicked", holds |-> None]]
                               /\ pc' = pc
    /\ UNCHANGED <<cfgVars, overflow_checks, line_number, input_queue, context, alignment_queue,
                   decompressed_queue, sorter, sorted_lines, output_queue,
                   output_writer, tmp_file, output_file, stamped, forwarded, notMain>>

\* The result is sent to the sorter; sequence is dropped at the end of the
\* iteration.
DecompressorSend(thread_index) ==
    /\ decompressor[thread_index].pc = "sending"
    /\ ~Gone(pc["sorter"])
    /\ Len(decompressed_queue) < queue_size
    /\ LET held == decompressor[thread_index].holds[1]
       IN  /\ decompressed_queue' = Append(decompressed_queue, held.result)
           /\ \E dropped \in DropOutcomes(held.dangling) :
                 IF dropped = "aborted" THEN Aborted
                 ELSE /\ decompressor' =
                            [decompressor EXCEPT ![thread_index] =
                                [pc |-> "running", holds |-> None]]
                      /\ pc' = pc
    /\ UNCHANGED <<cfgVars, overflow_checks, line_number, input_queue, context, alignment_queue,
                   decorated_queue, sorter, sorted_lines, output_queue, output_writer,
                   tmp_file, output_file, stamped, forwarded, notMain>>

\* send returns Err, the sorter being gone: unwrap panics, and sequence is
\* dropped while unwinding.
DecompressorSendFails(thread_index) ==
    /\ decompressor[thread_index].pc = "sending"
    /\ Gone(pc["sorter"])
    /\ \E dropped \in DropOutcomes(decompressor[thread_index].holds[1].dangling) :
          IF dropped = "aborted" THEN Aborted
          ELSE /\ decompressor' =
                     [decompressor EXCEPT ![thread_index] =
                         [pc |-> "panicked", holds |-> None]]
               /\ pc' = pc
    /\ UNCHANGED <<cfgVars, overflow_checks, line_number, input_queue, context, alignment_queue,
                   decorated_queue, decompressed_queue, sorter, sorted_lines,
                   output_queue, output_writer, tmp_file, output_file, stamped,
                   forwarded, notMain>>

\* recv returns Err, the queue being empty and decorated_alignment_sender
\* dropped.
DecompressorEnd(thread_index) ==
    /\ decompressor[thread_index].pc = "running"
    /\ decorated_queue = <<>>
    /\ Gone(pc["read_sequence_reader"])
    /\ decompressor' = [decompressor EXCEPT ![thread_index].pc = "done"]
    /\ UNCHANGED <<cfgVars, overflow_checks, pc, line_number, input_queue, context, alignment_queue,
                   decorated_queue, decompressed_queue, sorter, sorted_lines,
                   output_queue, output_writer, tmp_file, output_file, stamped,
                   forwarded, notMain>>

\* ---- sorter (main.rs:277-361)

\* u64 addition leaves the range (the operands as kept, see U64Max).
U64AddOverflows(a, b) == (a < 0 /\ b < 0) \/ ((a < 0 \/ b < 0) /\ a + b >= 0)

\* How an integer overflow ends, and what that tells about the build: with
\* overflow checks it panics, without them it wraps. The build is one or
\* the other throughout.
OverflowChecks(overflows) ==
    IF overflows /\ overflow_checks = "undetermined" THEN {"on", "off"}
    ELSE {overflow_checks}

\* A plausible slip: without alignments to scale by, the difference of the
\* offsets is kept as it is.
ScaledOffset_unscaled_without_alignments(d, s, o) ==
    IF o = 0 THEN (IF d < 0 THEN U64Max ELSE d)
    ELSE IF s = 0 \/ d = 0 THEN 0
    ELSE IF d < 0 THEN U64Max
    ELSE RoundDiv(d * s, o)

\* ((d as f64) * (s as f64) / (o as f64)).round() as u64, for d the u64
\* difference of the offsets, which stands for 2^64 + d when the subtraction
\* wrapped. 0/0 is NaN and casts to 0; what is 2^64 or more casts to
\* u64::MAX. For a wrapped d and 0 < s < o the value lies around 2^64 * s/o,
\* which the integers here do not reach: it is taken as u64::MAX, and no
\* alignment that is within its read gives s < o.
ScaledOffset(d, s, o) ==
    IF s = 0 \/ d = 0 THEN 0
    ELSE IF o = 0 \/ d < 0 THEN U64Max
    ELSE RoundDiv(d * s, o)

\* A plausible slip: the ratio of the two sums taken the other way round.
RewrittenOffset_inverse_ratio(locals, offset) ==
    LET d    == offset - locals.original_previous_offset
        term == ScaledOffset(d, locals.original_alignment_length_sum,
                             locals.shifted_alignment_length_sum)
    IN  [offset    |-> locals.shifted_previous_offset + term,
         overflows |-> d < 0 \/ U64AddOverflows(locals.shifted_previous_offset, term)]

\* The edge branch: the rewritten offset, and whether the subtraction or
\* the addition overflowed.
RewrittenOffset(locals, offset) ==
    LET d    == offset - locals.original_previous_offset
        term == ScaledOffset(d, locals.shifted_alignment_length_sum,
                             locals.original_alignment_length_sum)
    IN  [offset    |-> locals.shifted_previous_offset + term,
         overflows |-> d < 0 \/ U64AddOverflows(locals.shifted_previous_offset, term)]

\* The locals after the branch of the popped line, but current_context.
SorterStep(locals, line) ==
    IF line.kind = "Contig"
    THEN [locals EXCEPT !.alignment_count = 0,
                        !.original_alignment_length_sum = 0,
                        !.shifted_alignment_length_sum = 0,
                        !.original_previous_offset = 0,
                        !.shifted_previous_offset = 0]
    ELSE IF line.kind = "Edge"
    THEN [locals EXCEPT !.alignment_count = 0,
                        !.original_alignment_length_sum = 0,
                        !.shifted_alignment_length_sum = 0,
                        !.original_previous_offset = line.offset,
                        !.shifted_previous_offset = RewrittenOffset(locals, line.offset).offset]
    ELSE [locals EXCEPT !.alignment_count = @ + 1,
                        !.original_alignment_length_sum = @ + line.original_length,
                        !.shifted_alignment_length_sum = @ + line.length]

\* The tuple sent to the output writer for the popped entry.
SorterOutput(locals, entry) ==
    IF entry.line.kind = "Contig"
    THEN [line |-> entry.line, sequence_and_length |-> None]
    ELSE IF entry.line.kind = "Edge"
    THEN [line |-> [entry.line EXCEPT !.offset = RewrittenOffset(locals, @).offset],
          sequence_and_length |-> None]
    ELSE LET after == SorterStep(locals, entry.line)
             estimated_length == RoundDiv(after.shifted_alignment_length_sum,
                                          after.alignment_count)
         IN  [line |-> entry.line,
              sequence_and_length |->
                 IF entry.shifted_sequence = None THEN None
                 ELSE Some([sequence |-> entry.shifted_sequence[1],
                            edge_length |-> estimated_length])]

\* The assert of the branch.
SorterAsserts(entry) ==
    IF entry.line.kind = "Alignment" THEN entry.shifted_sequence # None
    ELSE entry.shifted_sequence = None

\* The inner loop goes on: the smallest key is the direct successor.
CanPop ==
    /\ sorted_lines # <<>>
    /\ directly_precedes(sorter.current_context, sorted_lines[1].context)

\* SorterRecv on a queue that hands out the tuple sent last.
SorterRecv_last_in_first_out ==
    /\ pc["sorter"] = "running"
    /\ ~CanPop
    /\ decompressed_queue # <<>>
    /\ LET inserted == BTreeInsert(sorted_lines,
                                   decompressed_queue[Len(decompressed_queue)])
       IN  /\ sorted_lines' = inserted[1]
           /\ pc' = [pc EXCEPT !["sorter"] =
                        IF inserted[2] = "inserted" THEN "running" ELSE "panicked"]
    /\ decompressed_queue' =
          SubSeq(decompressed_queue, 1, Len(decompressed_queue) - 1)
    /\ UNCHANGED <<cfgVars, overflow_checks, line_number, input_queue, context,
                   alignment_queue, decorated_queue, decompressor, sorter, output_queue,
                   output_writer, tmp_file, output_file, stamped, forwarded, notMain>>

\* The inner loop has ended: a tuple is received and inserted; insert
\* returning Some, or cmp failing an assert_eq, panics.
SorterRecv ==
    /\ pc["sorter"] = "running"
    /\ ~CanPop
    /\ decompressed_queue # <<>>
    /\ LET inserted == BTreeInsert(sorted_lines, Head(decompressed_queue))
       IN  /\ sorted_lines' = inserted[1]
           /\ pc' = [pc EXCEPT !["sorter"] =
                        IF inserted[2] = "inserted" THEN "running" ELSE "panicked"]
    /\ decompressed_queue' = Tail(decompressed_queue)
    /\ UNCHANGED <<cfgVars, overflow_checks, line_number, input_queue, context,
                   alignment_queue, decorated_queue, decompressor, sorter, output_queue,
                   output_writer, tmp_file, output_file, stamped, forwarded, notMain>>

\* One round of the inner loop: the smallest entry is removed, its line
\* rewritten and sent to the output writer. The thread panics on an
\* overflow in a build with overflow checks, on a failed assert, and when
\* send returns Err.
SorterPop ==
    /\ pc["sorter"] = "running"
    /\ CanPop
    /\ LET entry     == Head(sorted_lines)
           overflows == /\ entry.line.kind = "Edge"
                        /\ RewrittenOffset(sorter, entry.line.offset).overflows
           output    == SorterOutput(sorter, entry)
       IN  \E checks \in OverflowChecks(overflows) :
              /\ overflow_checks' = checks
              /\ sorted_lines' = Tail(sorted_lines)
              /\ IF (overflows /\ checks = "on") \/ ~SorterAsserts(entry)
                    \/ Gone(pc["output_writer"])
                 THEN /\ pc' = [pc EXCEPT !["sorter"] = "panicked"]
                      /\ UNCHANGED <<sorter, output_queue, forwarded>>
                 ELSE /\ Len(output_queue) < queue_size
                      /\ sorter' = [SorterStep(sorter, entry.line) EXCEPT
                                       !.current_context = entry.context]
                      /\ output_queue' = Append(output_queue, output)
                      /\ forwarded' =
                            Append(forwarded,
                                   [line |-> output.line, context |-> entry.context,
                                    sequence_and_length |-> output.sequence_and_length])
                      /\ pc' = pc
    /\ UNCHANGED <<cfgVars, line_number, input_queue, context, alignment_queue,
                   decorated_queue, decompressor, decompressed_queue, output_writer,
                   tmp_file, output_file, stamped, notMain>>

\* The senders of decompressed_queue: the parser and the decompressors.
DecompressedSendersGone == Gone(pc["input_parser"]) /\ DecompressorsGone

\* recv returns Err, the queue being empty and every sender dropped.
SorterEnd ==
    /\ pc["sorter"] = "running"
    /\ ~CanPop
    /\ decompressed_queue = <<>>
    /\ DecompressedSendersGone
    /\ pc' = [pc EXCEPT !["sorter"] = "done"]
    /\ UNCHANGED <<cfgVars, overflow_checks, line_number, input_queue, context,
                   alignment_queue, decorated_queue, decompressor, decompressed_queue,
                   sorter, sorted_lines, output_queue, output_writer, tmp_file,
                   output_file, stamped, forwarded, notMain>>

\* ---- output_writer (main.rs:364-418) and finalise_contig_line (428-470)

\* A plausible slip: the length of the contig is the offset of its last
\* edge, the length of that edge left out.
finalise_contig_line_offset_only(locals, tmp, out) ==
    IF locals.current_contig_line = None
    THEN [locals |-> locals, tmp_file |-> tmp, output_file |-> out, overflows |-> FALSE]
    ELSE LET line == [locals.current_contig_line[1] EXCEPT
                         !.length = locals.current_offset]
         IN  [locals      |-> [current_offset |-> 0, current_last_edge_length |-> 0,
                               current_contig_line |-> None],
              tmp_file    |-> <<>>,
              output_file |-> (out \o <<to_string(line)>>) \o tmp,
              overflows   |-> FALSE]

\* A plausible slip: the tmp file is appended and not emptied.
finalise_contig_line_keeps_tmp(locals, tmp, out) ==
    IF locals.current_contig_line = None
    THEN [locals |-> locals, tmp_file |-> tmp, output_file |-> out, overflows |-> FALSE]
    ELSE LET length == locals.current_offset + locals.current_last_edge_length
             line   == [locals.current_contig_line[1] EXCEPT !.length = length]
         IN  [locals      |-> [current_offset |-> 0, current_last_edge_length |-> 0,
                               current_contig_line |-> None],
              tmp_file    |-> tmp,
              output_file |-> (out \o <<to_string(line)>>) \o tmp,
              overflows   |-> U64AddOverflows(locals.current_offset,
                                              locals.current_last_edge_length)]

\* finalise_contig_line: with a contig line at hand, its length is set, it
\* is written to the output file and the tmp file is appended and emptied.
finalise_contig_line(locals, tmp, out) ==
    IF locals.current_contig_line = None
    THEN [locals |-> locals, tmp_file |-> tmp, output_file |-> out, overflows |-> FALSE]
    ELSE LET length == locals.current_offset + locals.current_last_edge_length
             line   == [locals.current_contig_line[1] EXCEPT !.length = length]
         IN  [locals      |-> [current_offset |-> 0, current_last_edge_length |-> 0,
                               current_contig_line |-> None],
              tmp_file    |-> <<>>,
              output_file |-> (out \o <<to_string(line)>>) \o tmp,
              overflows   |-> U64AddOverflows(locals.current_offset,
                                              locals.current_last_edge_length)]

\* The body of the loop for a received tuple.
OutputWriterStep(locals, tmp, out, item) ==
    IF item.line.kind = "Contig"
    THEN LET f == finalise_contig_line(locals, tmp, out)
         IN  [f EXCEPT !.locals.current_contig_line = Some(item.line)]
    ELSE IF item.line.kind = "Edge"
    THEN [locals      |-> [locals EXCEPT !.current_offset = item.line.offset],
          tmp_file    |-> Append(tmp, to_string(item.line)),
          output_file |-> out,
          overflows   |-> FALSE]
    ELSE [locals      |-> [locals EXCEPT !.current_last_edge_length =
                                            item.sequence_and_length[1].edge_length],
          tmp_file    |-> Append(tmp, to_string(item.line)
                                             \o item.sequence_and_length[1].sequence),
          output_file |-> out,
          overflows   |-> FALSE]

\* One iteration: a tuple is received and written. The thread panics on an
\* overflow in a build with overflow checks, and on unwrap of None.
OutputWriterRecv ==
    /\ pc["output_writer"] = "running"
    /\ output_queue # <<>>
    /\ output_queue' = Tail(output_queue)
    /\ LET item == Head(output_queue)
       IN  IF item.line.kind = "Alignment" /\ item.sequence_and_length = None
           THEN /\ pc' = [pc EXCEPT !["output_writer"] = "panicked"]
                /\ UNCHANGED <<overflow_checks, output_writer, tmp_file, output_file>>
           ELSE LET step == OutputWriterStep(output_writer, tmp_file, output_file, item)
                IN  \E checks \in OverflowChecks(step.overflows) :
                       /\ overflow_checks' = checks
                       /\ IF step.overflows /\ checks = "on"
                          THEN /\ pc' = [pc EXCEPT !["output_writer"] = "panicked"]
                               /\ UNCHANGED <<output_writer, tmp_file, output_file>>
                          ELSE /\ output_writer' = step.locals
                               /\ tmp_file' = step.tmp_file
                               /\ output_file' = step.output_file
                               /\ pc' = pc
    /\ UNCHANGED <<cfgVars, line_number, input_queue, context, alignment_queue,
                   decorated_queue, decompressor, decompressed_queue, sorter,
                   sorted_lines, stamped, forwarded, notMain>>

\* recv returns Err, the queue being empty and output_sender dropped: the
\* last contig is finalised and the thread returns.
OutputWriterEnd ==
    /\ pc["output_writer"] = "running"
    /\ output_queue = <<>>
    /\ Gone(pc["sorter"])
    /\ LET f == finalise_contig_line(output_writer, tmp_file, output_file)
       IN  \E checks \in OverflowChecks(f.overflows) :
              /\ overflow_checks' = checks
              /\ IF f.overflows /\ checks = "on"
                 THEN /\ pc' = [pc EXCEPT !["output_writer"] = "panicked"]
                      /\ UNCHANGED <<output_writer, tmp_file, output_file>>
                 ELSE /\ output_writer' = f.locals
                      /\ tmp_file' = f.tmp_file
                      /\ output_file' = f.output_file
                      /\ pc' = [pc EXCEPT !["output_writer"] = "done"]
    /\ UNCHANGED <<cfgVars, line_number, input_queue, context, alignment_queue,
                   decorated_queue, decompressor, decompressed_queue, sorter,
                   sorted_lines, output_queue, stamped, forwarded, notMain>>

Next ==
    \/ InputReaderSend \/ InputReaderSendFails \/ InputReaderEnd
    \/ InputParserForward \/ InputParserAlignment \/ InputParserPanics
    \/ InputParserEnd
    \/ ReadSequenceReaderSend \/ ReadSequenceReaderPanics \/ ReadSequenceReaderEnd
    \/ \E thread_index \in DOMAIN decompressor : DecompressorRecv(thread_index)
    \/ \E thread_index \in DOMAIN decompressor : DecompressorSend(thread_index)
    \/ \E thread_index \in DOMAIN decompressor : DecompressorSendFails(thread_index)
    \/ \E thread_index \in DOMAIN decompressor : DecompressorEnd(thread_index)
    \/ SorterRecv \/ SorterPop \/ SorterEnd
    \/ OutputWriterRecv \/ OutputWriterEnd

Init == MInit /\ IBuilt /\ DIdle /\ LIdle

Spec == Init /\ [][Next]_vars

\* ---- failures of the files and the scheduling of the threads

\* lines() yields Err (a read error, a line that is not UTF-8): unwrap
\* panics and the thread drops input_sender.
InputReaderPanics ==
    /\ pc["input_reader"] = "running"
    /\ line_number < Len(input_lines)
    /\ pc' = [pc EXCEPT !["input_reader"] = "panicked"]
    /\ UNCHANGED <<cfgVars, overflow_checks, line_number, input_queue, context, alignment_queue,
                   decorated_queue, decompressor, decompressed_queue, sorter,
                   sorted_lines, output_queue, output_writer, tmp_file, output_file,
                   stamped, forwarded, notMain>>

\* A tuple is received and a write of it returns Err: unwrap panics and the
\* thread drops output_receiver.
OutputWriterPanics ==
    /\ pc["output_writer"] = "running"
    /\ output_queue # <<>>
    /\ output_queue' = Tail(output_queue)
    /\ pc' = [pc EXCEPT !["output_writer"] = "panicked"]
    /\ UNCHANGED <<cfgVars, overflow_checks, line_number, input_queue, context,
                   alignment_queue, decorated_queue, decompressor, decompressed_queue,
                   sorter, sorted_lines, output_writer, tmp_file, output_file, stamped,
                   forwarded, notMain>>

\* ---- a thread blocked in send on a full queue or in recv on an empty one

InputReaderWaits ==
    /\ pc["input_reader"] = "running"
    /\ line_number < Len(input_lines)
    /\ ~Gone(pc["input_parser"])
    /\ Len(input_queue) >= queue_size

InputParserWaits ==
    /\ pc["input_parser"] = "running"
    /\ IF input_queue = <<>> THEN ~Gone(pc["input_reader"])
       ELSE LET line == from_str(Head(input_queue))
            IN  /\ line.kind # "panic"
                /\ ParserAsserts(context, line)
                /\ IF line.kind = "Alignment"
                   THEN /\ ~Gone(pc["read_sequence_reader"])
                        /\ Len(alignment_queue) >= queue_size
                   ELSE /\ ~Gone(pc["sorter"])
                        /\ Len(decompressed_queue) >= queue_size

ReadSequenceReaderWaits ==
    /\ pc["read_sequence_reader"] = "running"
    /\ IF alignment_queue = <<>> THEN ~Gone(pc["input_parser"])
       ELSE /\ \A got \in get_sequence(w_file, w_index,
                                        Head(alignment_queue).line.read_id, NewVec) :
                  got.pc = "ready"
            /\ ~DecompressorsGone
            /\ Len(decorated_queue) >= queue_size

DecompressorWaits(thread_index) ==
    \/ /\ decompressor[thread_index].pc = "running"
       /\ decorated_queue = <<>>
       /\ ~Gone(pc["read_sequence_reader"])
    \/ /\ decompressor[thread_index].pc = "sending"
       /\ ~Gone(pc["sorter"])
       /\ Len(decompressed_queue) >= queue_size

SorterWaits ==
    /\ pc["sorter"] = "running"
    /\ IF CanPop
       THEN LET entry     == Head(sorted_lines)
                overflows == /\ entry.line.kind = "Edge"
                             /\ RewrittenOffset(sorter, entry.line.offset).overflows
            IN  /\ ~(overflows /\ "on" \in OverflowChecks(overflows))
                /\ SorterAsserts(entry)
                /\ ~Gone(pc["output_writer"])
                /\ Len(output_queue) >= queue_size
       ELSE /\ decompressed_queue = <<>>
            /\ ~DecompressedSendersGone

OutputWriterWaits ==
    /\ pc["output_writer"] = "running"
    /\ output_queue = <<>>
    /\ ~Gone(pc["sorter"])

\* A thread of the scope that has not ended.
Live(state) == state \in {"running", "sending"}

\* A thread of the scope that has not ended is not blocked on a queue.
CanStep ==
    \/ Live(pc["input_reader"]) /\ ~InputReaderWaits
    \/ Live(pc["input_parser"]) /\ ~InputParserWaits
    \/ Live(pc["read_sequence_reader"]) /\ ~ReadSequenceReaderWaits
    \/ \E thread_index \in DOMAIN decompressor :
          Live(decompressor[thread_index].pc) /\ ~DecompressorWaits(thread_index)
    \/ Live(pc["sorter"]) /\ ~SorterWaits
    \/ Live(pc["output_writer"]) /\ ~OutputWriterWaits

\* The pipeline with files that may fail.
NextFailing ==
    \/ Next
    \/ InputReaderPanics
    \/ OutputWriterPanics

\* The steps of one decompressor thread.
Decompressor(thread_index) ==
    /\ thread_index \in DOMAIN decompressor
    /\ \/ DecompressorRecv(thread_index)
       \/ DecompressorSend(thread_index)
       \/ DecompressorSendFails(thread_index)
       \/ DecompressorEnd(thread_index)

\* Every thread of the scope is a thread of the operating system: one that
\* can go on does go on. A failure of a file is not owed.
Fairness ==
    /\ WF_vars(InputReaderSend \/ InputReaderSendFails \/ InputReaderEnd)
    /\ WF_vars(InputParserForward \/ InputParserAlignment \/ InputParserPanics
                  \/ InputParserEnd)
    /\ WF_vars(ReadSequenceReaderSend \/ ReadSequenceReaderPanics
                  \/ ReadSequenceReaderEnd)
    /\ \A thread_index \in 1..MaxThreads : WF_vars(Decompressor(thread_index))
    /\ WF_vars(SorterRecv \/ SorterPop \/ SorterEnd)
    /\ WF_vars(OutputWriterRecv \/ OutputWriterEnd)

SpecFair == Init /\ [][Next]_vars /\ Fairness

SpecFailing == Init /\ [][NextFailing]_vars /\ Fairness

\* crossbeam::scope(..).unwrap() of main: Err when a thread of the scope
\* has panicked; an abort ends the process at once.
RunFails ==
    \/ \E s \in Stages : pc[s] \in {"panicked", "aborted"}
    \/ \E thread_index \in DOMAIN decompressor :
          decompressor[thread_index].pc \in {"panicked", "aborted"}

\* The index a call of get_sequence is made on: the one build returned, or
\* the one build_parallel returned after joining the writer thread.
Built(self) ==
    IF self = "build" THEN b_pc = "done" ELSE w_pc = "done"
IndexFile(self) == IF self = "build" THEN b_file ELSE w_file
IndexMap(self) == IF self = "build" THEN b_index ELSE w_index

GetSequence ==
    /\ q_pc = "ready"
    /\ \E self \in {"build", "build_parallel"}, id \in ReadIds :
          /\ Built(self)
          /\ \E out \in get_sequence(IndexFile(self), IndexMap(self), id, q_output) :
                /\ q_output' = out.output
                /\ q_pc' = out.pc
          /\ q_last' = [self |-> self, id |-> id]
    /\ UNCHANGED <<fasta, bVars, pVars, notIndex>>

INext ==
    \/ BuildAppend \/ BuildReturn
    \/ ReaderSend \/ ReaderSendFails \/ ReaderEnd \/ ReaderHandsOver
    \/ WriterRecv \/ WriterEnd
    \/ GetSequence

InitIndex == IInit /\ DIdle /\ MIdle /\ LIdle

SpecIndex == InitIndex /\ [][INext]_vars

InitDecompress == DInit /\ IIdle /\ MIdle /\ LIdle

SpecDecompress == InitDecompress /\ [][DNext]_vars

LNext ==
    \/ CallDirectlyPrecedes
    \/ CallToString \/ CallFromStrOfPrinted \/ CallFromStr
    \/ CallReverseComplement

InitLine == LInit /\ DIdle /\ IIdle /\ MIdle

SpecLine == InitLine /\ [][LNext]_vars

\* ---- the threads on a layout with alignments of length 0

\* The lines of such an input file: the contig and the edges of
\* InputLines, an alignment of length 0 at the start of read r, followed
\* by no sequence, and the reverse alignment of its first compressed base.
ZeroLengthInputs ==
    ContigInputs \cup EdgeInputs
      \cup {<<"S", Tab, "r", Tab, "+", Tab, "0", Tab, "0", Tab>>,
             <<"S", Tab, "r", Tab, "-", Tab, "0", Tab, "1", Tab, "A">>}

ZInit ==
    /\ input_lines \in SeqsUpTo(ZeroLengthInputs, MaxLines)
    /\ queue_size \in 1..MaxQueueSize
    /\ compute_threads \in 1..MaxThreads
    /\ MStart

InitZeroLength == ZInit /\ IBuilt /\ DIdle /\ LIdle

SpecZeroLength == InitZeroLength /\ [][Next]_vars

\* ---- the sorter on the tuples sent to it

MaxArrivals == 4

\* The tuples the parser and a decompressor send for the layout contig,
\* edge, alignment.
SorterTuples ==
    LET contig    == ContigContext(DefaultContext)
        edge      == EdgeContext(contig)
        alignment == AlignmentContext(edge)
    IN  {[line |-> ContigLine(<<"c">>, 2, 5), context |-> contig,
          shifted_sequence |-> None],
         [line |-> EdgeLine(0, <<"a">>, TRUE, <<"b">>, FALSE), context |-> edge,
          shifted_sequence |-> None],
         [line |-> AlignmentLine(<<"r">>, TRUE, 0, 2, 1), context |-> alignment,
          shifted_sequence |-> Some(<<"A", "A">>)]}

\* The senders of the sorter's queue have sent any tuples in any order,
\* one more than once too, and have returned; the queue is long enough
\* for them, and the sorter and the output writer have not taken a step.
\* stamped keeps what was sent.
SInit ==
    /\ input_lines = <<>>
    /\ queue_size = MaxArrivals
    /\ compute_threads = 1
    /\ overflow_checks = "undetermined"
    /\ pc = [s \in Stages |->
                IF s \in {"sorter", "output_writer"} THEN "running" ELSE "done"]
    /\ line_number = 0
    /\ input_queue = <<>>
    /\ context = DefaultContext
    /\ alignment_queue = <<>>
    /\ decorated_queue = <<>>
    /\ decompressor = [thread_index \in 1..1 |-> [pc |-> "done", holds |-> None]]
    /\ decompressed_queue \in SeqsUpTo(SorterTuples, MaxArrivals)
    /\ sorter = SorterLocals
    /\ sorted_lines = <<>>
    /\ output_queue = <<>>
    /\ output_writer = OutputWriterLocals
    /\ tmp_file = <<>>
    /\ output_file = <<>>
    /\ stamped = [i \in 1..Len(decompressed_queue) |->
                     WithContext(decompressed_queue[i].line,
                                 decompressed_queue[i].context)]
    /\ forwarded = <<>>

\* The steps of the sorter and of the output writer.
SNext ==
    \/ SorterRecv
    \/ SorterPop
    \/ SorterEnd
    \/ OutputWriterRecv
    \/ OutputWriterEnd

InitSorter == SInit /\ IBuilt /\ DIdle /\ LIdle

SpecSorter == InitSorter /\ [][SNext]_vars

\* ---- the parser on the lines of an input

MaxParserLines == 6

\* One line of each kind.
ParserLines ==
    ContigInputs
      \cup {<<"E", Tab, "0", Tab, "a", Tab, "+", Tab, "b", Tab, "-">>}
      \cup {<<"S", Tab, "r", Tab, "+", Tab, "0", Tab, "1", Tab, "A">>}

\* The threads are spawned, the reader has sent every line and returned,
\* the queues being long enough for the input, and no other thread has
\* taken a step.
PInit ==
    /\ input_lines \in SeqsUpTo(ParserLines, MaxParserLines)
    /\ queue_size = MaxParserLines
    /\ compute_threads = 1
    /\ overflow_checks = "undetermined"
    /\ pc = [s \in Stages |-> IF s = "input_reader" THEN "done" ELSE "running"]
    /\ line_number = Len(input_lines)
    /\ input_queue = input_lines
    /\ context = DefaultContext
    /\ alignment_queue = <<>>
    /\ decorated_queue = <<>>
    /\ decompressor = [thread_index \in 1..1 |-> [pc |-> "running", holds |-> None]]
    /\ decompressed_queue = <<>>
    /\ sorter = SorterLocals
    /\ sorted_lines = <<>>
    /\ output_queue = <<>>
    /\ output_writer = OutputWriterLocals
    /\ tmp_file = <<>>
    /\ output_file = <<>>
    /\ stamped = <<>>
    /\ forwarded = <<>>

\* The steps of the parser.
PNext ==
    \/ InputParserForward
    \/ InputParserAlignment
    \/ InputParserPanics
    \/ InputParserEnd

InitParser == PInit /\ IBuilt /\ DIdle /\ LIdle

SpecParser == InitParser /\ [][PNext]_vars

-----------------------------------------------------------------------------
(* What decompress is to compute, stated on runs.                          *)

\* The 0-based indices at which a maximal run of equal bytes starts.
RunStarts(seq) == {i \in 0..(Len(seq) - 1) : i = 0 \/ seq[i] # seq[i + 1]}

\* The compressed length of seq: its number of maximal runs.
CompressedLength(seq) == Cardinality(RunStarts(seq))

\* The index of the first byte of the k-th run (0-based), and Len(seq) for
\* k = CompressedLength(seq).
RunStart(seq, k) ==
    IF k >= CompressedLength(seq) THEN Len(seq)
    ELSE CHOOSE i \in RunStarts(seq) : Cardinality({j \in RunStarts(seq) : j < i}) = k

DValid == d_offset <= d_limit /\ d_limit <= CompressedLength(d_sequence)

\* The table of tests::test_decompress: <<offset, limit, shifted_offset, shifted_limit>>.
TestTable ==
    { <<2, 4, 4, 8>>, <<0, 0, 0, 0>>, <<0, 1, 0, 2>>, <<0, 2, 0, 4>>,
      <<1, 2, 2, 4>>, <<2, 2, 4, 4>>, <<1, 3, 2, 5>>, <<2, 3, 4, 5>>,
      <<3, 4, 5, 8>>, <<3, 5, 5, 9>>, <<4, 5, 8, 9>>, <<5, 5, 9, 9>>,
      <<0, 6, 0, 10>>, <<4, 6, 8, 10>>, <<5, 6, 9, 10>>, <<6, 6, 10, 10>> }

\* C2: for a valid pair (offset <= limit <= compressed length) a finished
\* call has mapped offset and limit to the first byte of their runs, the
\* compressed length itself to the length of the sequence; so (0, 0) maps to
\* (0, 0), and every row of the test table is met.
C2_MapsToRunStarts ==
    d_pc = "done" =>
        /\ DValid =>
              /\ d_shifted_offset = RunStart(d_sequence, d_offset)
              /\ d_shifted_limit = RunStart(d_sequence, d_limit)
        /\ (d_offset = 0 /\ d_limit = 0) => (d_shifted_offset = 0 /\ d_shifted_limit = 0)
        /\ \A t \in TestTable :
              (d_sequence = TestSequence /\ d_offset = t[1] /\ d_limit = t[2])
                  => (d_shifted_offset = t[3] /\ d_shifted_limit = t[4])

\* C2's case: a row of the test table with both coordinates inside runs of
\* several bytes, the limit at the compressed length.
C2_Witness ==
    /\ d_pc = "done"
    /\ d_sequence = TestSequence
    /\ d_offset = 4 /\ d_limit = 6
    /\ d_shifted_offset = 8 /\ d_shifted_limit = 10

\* C3: for a valid pair the slice between the two mapped positions holds
\* exactly limit - offset maximal runs.
C3_SliceHoldsTheRuns ==
    (d_pc = "done" /\ DValid) =>
        /\ d_shifted_offset <= d_shifted_limit
        /\ d_shifted_limit <= Len(d_sequence)
        /\ CompressedLength(Slice(d_sequence, d_shifted_offset, d_shifted_limit))
              = d_limit - d_offset

\* C3's case: a slice of at least two runs that is longer than its number of
\* runs and starts inside the sequence.
C3_Witness ==
    /\ d_pc = "done" /\ DValid
    /\ d_offset > 0
    /\ d_limit - d_offset >= 2
    /\ d_shifted_limit - d_shifted_offset > d_limit - d_offset

\* C4: whatever offset <= limit are, in range or not, the result is ordered
\* and lies within the sequence.
C4_ResultWithinSequence ==
    d_pc = "done" =>
        /\ d_shifted_offset <= d_shifted_limit
        /\ d_shifted_limit <= Len(d_sequence)

\* C5: a coordinate beyond the compressed length is mapped to the length of
\* the sequence.
C5_OutOfRangeYieldsLen ==
    d_pc = "done" =>
        /\ d_offset > CompressedLength(d_sequence) => d_shifted_offset = Len(d_sequence)
        /\ d_limit > CompressedLength(d_sequence) => d_shifted_limit = Len(d_sequence)

\* C6: for a valid pair the limit found by continuing the scan from the
\* mapped offset is the position found for the limit alone by a scan from the
\* start of the sequence.
C6_ContinuedScanIsRestartedScan ==
    (d_pc = "done" /\ DValid) => d_shifted_limit = FindOffset(d_limit, d_sequence)

\* C6's case: the scan for the limit started in the middle of the sequence
\* and went on from there.
C6_Witness ==
    /\ d_pc = "done" /\ DValid
    /\ 0 < d_shifted_offset
    /\ d_shifted_offset < d_shifted_limit
    /\ d_shifted_limit < Len(d_sequence)


-----------------------------------------------------------------------------
(* Claims about FastaSequenceIndex.                                        *)

\* The ids of the FASTA records.
FastaIds == {fasta[i].id : i \in 1..Len(fasta)}

\* The records carry pairwise distinct ids.
DistinctIds == \A i, j \in 1..Len(fasta) : fasta[i].id = fasta[j].id => i = j

\* The sequence bytes of the record named id.
SeqOf(id) == (CHOOSE r \in {fasta[i] : i \in 1..Len(fasta)} : r.id = id).seq

\* C7: with pairwise distinct ids, a call get_sequence(id, output) for an id
\* of the input returns, and leaves in output exactly the sequence bytes of
\* the record named id, whatever output held and whatever was queried before.
C7_GetSequenceRoundTrip ==
    (DistinctIds /\ q_last # NoCall /\ q_last.id \in FastaIds) =>
        /\ q_pc = "ready"
        /\ q_output.bytes = SeqOf(q_last.id)

\* A build has come to its end, by returning or by a panic.
Ended(state) == state \in {"done", "panicked"}

\* C8: build_parallel ends as build does on the same records, with the same
\* bytes written and the same map, for every channel bound and interleaving;
\* and until its writer thread has ended one of its two threads can step.
C8_ParallelBuildEqualsSerial ==
    /\ (Ended(b_pc) /\ Ended(w_pc)) =>
          /\ w_pc = b_pc
          /\ w_file = b_file
          /\ w_index = b_index
    /\ w_pc = "running" =>
          ENABLED (ReaderSend \/ ReaderSendFails \/ ReaderEnd \/ ReaderHandsOver
                   \/ WriterRecv \/ WriterEnd)

\* C8's case: both builds returned an index of several records, built
\* through a channel of bound 1.
C8_Witness ==
    /\ b_pc = "done" /\ w_pc = "done"
    /\ channel_size = 1
    /\ Len(fasta) >= 2
    /\ Cardinality(DOMAIN w_index) >= 2
    /\ Len(w_file) > Len(fasta)

\* Every FileSlice of the map lies within the bytes written, with the
\* delimiter right behind it.
SlicesDelimited(file, index) ==
    \A id \in DOMAIN index :
        /\ index[id].offset + index[id].len + 1 <= Len(file)
        /\ file[index[id].offset + index[id].len + 1] = Newline

\* C9: at every point of a build, serial or parallel, every FileSlice of the
\* map satisfies offset + len + 1 <= bytes written, and the byte at
\* offset + len is the newline.
C9_SlicesWithinFile ==
    /\ SlicesDelimited(b_file, b_index)
    /\ SlicesDelimited(w_file, w_index)

\* C9's case: two records appended in both builds, the second behind a
\* non-empty first.
C9_Witness ==
    /\ Cardinality(DOMAIN b_index) = 2
    /\ Cardinality(DOMAIN w_index) = 2
    /\ \E id \in DOMAIN w_index : w_index[id].offset > 1 /\ w_index[id].len > 0

\* C10: with two records of the same id neither build returns an index, both
\* end in a panic (and without duplicates neither panics); and a call of
\* get_sequence with an id that is not in the map panics and returns no bytes.
C10_IndexErrorsAreFatal ==
    /\ ~DistinctIds => (b_pc # "done" /\ w_pc # "done")
    /\ Ended(b_pc) => (b_pc = "panicked" <=> ~DistinctIds)
    /\ Ended(w_pc) => (w_pc = "panicked" <=> ~DistinctIds)
    /\ b_pc = "running" => ENABLED (BuildAppend \/ BuildReturn)
    /\ (q_last # NoCall /\ ~Contains(IndexMap(q_last.self), q_last.id)) =>
          q_pc = "panicked"

\* C10's case: a duplicate id made both builds panic, after a first record
\* went in.
C10_Witness ==
    /\ ~DistinctIds
    /\ b_pc = "panicked" /\ w_pc = "panicked"
    /\ Len(b_file) > 0

\* C10's other case: a query for an id that is not in the map of a built index.
C10_WitnessMissingId ==
    /\ q_pc = "panicked"
    /\ q_last # NoCall
    /\ ~Contains(IndexMap(q_last.self), q_last.id)
    /\ DOMAIN IndexMap(q_last.self) # {}

-----------------------------------------------------------------------------
(* The order of the records the sorter forwards.                           *)

\* A record as the parser stamped it and as the sorter forwarded it: the
\* sorter rewrites offsets and lengths, the context, the kind and the read
\* stay.
SameRecord(a, b) ==
    /\ a.context = b.context
    /\ a.line.kind = b.line.kind
    /\ a.line.kind = "Alignment" => a.line.read_id = b.line.read_id

\* C1: whatever the layout, the queue capacity, the number of decompressor
\* threads and the interleaving, the records the sorter has sent to the
\* output writer are at every moment a prefix of the records in the order
\* the parser read them: none is sent before its predecessor, none twice.
C1_ForwardedInParserOrder ==
    /\ Len(forwarded) <= Len(stamped)
    /\ \A i \in 1..Len(forwarded) : SameRecord(forwarded[i], stamped[i])

\* The sorter has forwarded a contig and an edge and holds back the second
\* alignment of the edge, which overtook the first among the decompressors.
C1_Witness ==
    /\ Len(forwarded) >= 2
    /\ sorted_lines # <<>>
    /\ ~CanPop
    /\ sorted_lines[1].line.kind = "Alignment"
    /\ sorted_lines[1].context.alignment_index >= 1
    /\ sorter.current_context.alignment_index < sorted_lines[1].context.alignment_index - 1

-----------------------------------------------------------------------------
(* directly_precedes                                                       *)

\* The three ways of a direct successor: the next contig, the next edge of
\* the contig, the next alignment of the edge.
NextContig(a, b) ==
    /\ b.contig_index = a.contig_index + 1
    /\ a.edge_index + 1 = b.previous_contig_edge_count
    /\ a.alignment_index + 1 = b.previous_edge_alignment_count
NextEdge(a, b) ==
    /\ b.contig_index = a.contig_index
    /\ b.edge_index = a.edge_index + 1
    /\ a.alignment_index + 1 = b.previous_edge_alignment_count
NextAlignment(a, b) ==
    /\ b.contig_index = a.contig_index
    /\ b.edge_index = a.edge_index
    /\ b.alignment_index = a.alignment_index + 1

\* The first edge of a contig after the contig line, whatever the counts.
FirstEdge(a, b) ==
    /\ b.contig_index = a.contig_index
    /\ a.edge_index = -1
    /\ b.edge_index = 0

ExactlyOne(p, q, r) == (p /\ ~q /\ ~r) \/ (~p /\ q /\ ~r) \/ (~p /\ ~q /\ r)

DirectlyPrecedesReturned == l_call.fn = "directly_precedes" /\ l_result # None

\* C11, as stated: a.directly_precedes(b) is true if and only if exactly
\* one of next contig, next edge with a.alignment_index + 1 =
\* b.previous_edge_alignment_count, and next alignment holds.
C11_AsStated ==
    DirectlyPrecedesReturned =>
        (l_result[1] <=> ExactlyOne(NextContig(l_call.self, l_call.other),
                                    NextEdge(l_call.self, l_call.other),
                                    NextAlignment(l_call.self, l_call.other)))

\* C11, amended: a.directly_precedes(b) is true if and only if exactly one
\* of these holds: next contig; next edge of the same contig, with
\* a.alignment_index + 1 = b.previous_edge_alignment_count or with a the
\* contig line itself (a.edge_index = -1); next alignment.
C11_DirectSuccessor ==
    DirectlyPrecedesReturned =>
        (l_result[1] <=> ExactlyOne(NextContig(l_call.self, l_call.other),
                                    NextEdge(l_call.self, l_call.other)
                                        \/ FirstEdge(l_call.self, l_call.other),
                                    NextAlignment(l_call.self, l_call.other)))

\* A call has returned true for the first edge of a contig whose count
\* carried over does not fit the contig line.
C11_Witness ==
    /\ DirectlyPrecedesReturned
    /\ l_result[1]
    /\ FirstEdge(l_call.self, l_call.other)
    /\ ~NextEdge(l_call.self, l_call.other)

-----------------------------------------------------------------------------
(* The contig line, printed and parsed                                     *)

\* '>' NAME separator 'nodes=' node_count separator 'len=' length
ContigText(line, separator) ==
    <<">">> \o line.name \o <<separator, "n", "o", "d", "e", "s", "=">>
        \o Display(line.node_count) \o <<separator, "l", "e", "n", "=">>
        \o Display(line.length)

ToStringReturned == l_call.fn = "to_string" /\ l_result # None
FromStrReturned == l_call.fn = "from_str" /\ l_result # None

\* C19, as stated: a contig is printed with tabs between its three fields,
\* a line of that form is parsed into its name, node count and length (the
\* line ">c1<TAB>nodes=2<TAB>len=0" among them), and parsing what was
\* printed gives the contig back.
C19_AsStated ==
    /\ ToStringReturned => l_result[1] = ContigText(l_call.line, Tab)
    /\ (FromStrReturned /\ l_call.s = ContigWithTabs) =>
          l_result[1] = ContigLine(<<"c", "1">>, 2, 0)
    /\ (FromStrReturned /\ l_call.printed # NoLine) => l_result[1] = l_call.printed

\* C19, amended: a contig is printed with single spaces between its three
\* fields, a line of that form is parsed into its name, node count and
\* length, and parsing what was printed gives the contig back when its
\* name holds no space; the line with tabs is not accepted.
C19_ContigWithSpaces ==
    /\ ToStringReturned => l_result[1] = ContigText(l_call.line, Space)
    /\ (FromStrReturned /\ l_call.s = ContigWithSpaces) =>
          l_result[1] = ContigLine(<<"c", "1">>, 2, 0)
    /\ (FromStrReturned /\ l_call.s = ContigWithTabs) => l_result[1] = Panic
    /\ (FromStrReturned /\ l_call.printed # NoLine) =>
          (l_result[1] = l_call.printed
              <=> \A i \in 1..Len(l_call.printed.name) : l_call.printed.name[i] # Space)

\* A contig with numbers of two digits has been printed and parsed back.
C19_Witness ==
    /\ FromStrReturned
    /\ l_call.printed # NoLine
    /\ l_result[1] = l_call.printed
    /\ l_call.printed.node_count >= 10
    /\ l_call.printed.length >= 10

-----------------------------------------------------------------------------
(* reverse_complement                                                      *)

\* A<->T, C<->G, N<->N
ComplementPairs ==
    {<<"A", "T">>, <<"T", "A">>, <<"C", "G">>, <<"G", "C">>, <<"N", "N">>}
IsDna(dna) == \A i \in 1..Len(dna) : dna[i] \in {"A", "C", "G", "T", "N"}

ReverseComplementReturned == l_call.fn = "reverse_complement" /\ l_result # None

\* C20: on a string over A, C, G, T, N reverse_complement returns a string
\* of the same length whose i-th byte is the complement of the i-th byte
\* from the end (ACGTN gives NACGT); on a string with any other byte it
\* panics and returns nothing.
C20_ReverseComplement ==
    ReverseComplementReturned =>
        LET dna == l_call.dna
            out == l_result[1]
        IN  /\ IsDna(dna) =>
                  /\ Len(out) = Len(dna)
                  /\ \A i \in 1..Len(dna) : <<dna[Len(dna) + 1 - i], out[i]>> \in ComplementPairs
            /\ dna = <<"A", "C", "G", "T", "N">> => out = <<"N", "A", "C", "G", "T">>
            /\ ~IsDna(dna) => out = <<"panic">>

\* A string of three distinct bases that is not its own complement read
\* backwards has been turned around.
C20_Witness ==
    /\ ReverseComplementReturned
    /\ l_call.dna = <<"A", "C", "C">>
    /\ l_result[1] = <<"G", "G", "T">>

\* The call on a string with a byte that is no base has panicked.
C20_WitnessPanic ==
    /\ ReverseComplementReturned
    /\ l_call.dna = <<"A", "X">>
    /\ l_result[1] = <<"panic">>

-----------------------------------------------------------------------------
(* The contexts the parser stamps                                          *)

\* The lexicographic order on (contig_index, edge_index, alignment_index).
LexLess(a, b) ==
    \/ a.contig_index < b.contig_index
    \/ a.contig_index = b.contig_index /\ a.edge_index < b.edge_index
    \/ /\ a.contig_index = b.contig_index
       /\ a.edge_index = b.edge_index
       /\ a.alignment_index < b.alignment_index

\* C12: the contexts the parser stamps on successive records increase
\* strictly in the lexicographic order on the three indices (and by cmp),
\* so no two records get the same context, and the i-th record sent is the
\* i-th line of the input.
C12_StampedStrictlyIncreasing ==
    /\ \A i \in 1..Len(stamped), j \in 1..Len(stamped) :
          i < j => LexLess(stamped[i].context, stamped[j].context)
    /\ \A i \in 1..(Len(stamped) - 1) :
          cmp(stamped[i].context, stamped[i + 1].context) = "Less"
    /\ Len(stamped) <= Len(input_lines)
    /\ \A i \in 1..Len(stamped) : stamped[i].line = from_str(input_lines[i])

\* The parser has stamped a contig, an edge, an alignment and a second contig.
C12_Witness ==
    /\ Len(stamped) = 4
    /\ stamped[3].line.kind = "Alignment"
    /\ stamped[4].context.contig_index = 1

-----------------------------------------------------------------------------
(* The output file                                                         *)

\* The lines of the output file that are contig headers, by position.
Headers == {i \in 1..Len(output_file) : output_file[i][1] = ">"}

\* The position of the header of the contig with index c (0-based).
HeaderOf(c) == CHOOSE i \in Headers : Cardinality({j \in Headers : j < i}) = c

\* The records of kind k of contig c among those the sorter forwarded, by
\* position, and the last of them (0 when there is none).
ForwardedOf(c, k) ==
    {i \in 1..Len(forwarded) :
        forwarded[i].context.contig_index = c /\ forwarded[i].line.kind = k}
LastOf(positions) ==
    IF positions = {} THEN 0 ELSE CHOOSE i \in positions : \A j \in positions : j <= i

\* The rewritten offset of the last edge of contig c, 0 without an edge.
LastEdgeOffset(c) ==
    LET i == LastOf(ForwardedOf(c, "Edge"))
    IN  IF i = 0 THEN 0 ELSE forwarded[i].line.offset

\* What current_last_edge_length holds when contig c is closed: the
\* estimate sent with the last alignment of the contig, 0 without one.
LastEdgeLength(c) ==
    LET i == LastOf(ForwardedOf(c, "Alignment"))
    IN  IF i = 0 THEN 0 ELSE forwarded[i].sequence_and_length[1].edge_length

\* C13: every contig header in the output file is the contig line the
\* sorter forwarded with its len set to the rewritten offset of the last
\* edge of the contig (0 without an edge) plus the value
\* current_last_edge_length holds when the contig is closed.
C13_ContigLength ==
    \A c \in 0..(Cardinality(Headers) - 1) :
        LET contig == forwarded[LastOf(ForwardedOf(c, "Contig"))].line
        IN  output_file[HeaderOf(c)] =
                to_string([contig EXCEPT !.length = LastEdgeOffset(c) + LastEdgeLength(c)])

\* A contig with a second edge, which lies at offset 2 after an alignment
\* of length 2, has been written with len=4.
C13_Witness ==
    /\ Headers # {}
    /\ LastEdgeOffset(0) = 2
    /\ LastEdgeLength(0) = 2
    /\ output_file[1] = to_string(ContigLine(<<"c">>, 2, 4))

\* The records the output writer has received: those forwarded and no
\* longer in the queue.
Received == SubSeq(forwarded, 1, Len(forwarded) - Len(output_queue))

\* An edge or alignment record as a line of the file: the alignment is
\* followed by its payload.
PrintedRecord(r) ==
    IF r.line.kind = "Alignment"
    THEN to_string(r.line) \o r.sequence_and_length[1].sequence
    ELSE to_string(r.line)

\* The lines of the edges and alignments of contig c among records, in order.
RECURSIVE BodyFrom(_, _, _)
BodyFrom(records, c, i) ==
    IF i > Len(records) THEN <<>>
    ELSE IF records[i].context.contig_index = c /\ records[i].line.kind # "Contig"
    THEN <<PrintedRecord(records[i])>> \o BodyFrom(records, c, i + 1)
    ELSE BodyFrom(records, c, i + 1)
Body(records, c) == BodyFrom(records, c, 1)

\* The contigs among records.
ContigCount(records) ==
    Cardinality({i \in 1..Len(records) : records[i].line.kind = "Contig"})

\* The file made of the first n contigs forwarded: of each its header and
\* then its lines.
RECURSIVE FileOfContigs(_)
FileOfContigs(n) ==
    IF n = 0 THEN <<>>
    ELSE (FileOfContigs(n - 1) \o <<output_file[HeaderOf(n - 1)]>>)
             \o Body(forwarded, n - 1)

-----------------------------------------------------------------------------
(* What a decompressor emits                                               *)

\* The sequence of the read with this id in the reads file.
ReadOf(read_id) ==
    NormalFasta[CHOOSE i \in 1..Len(NormalFasta) : NormalFasta[i].id = read_id].seq

\* The line the parser stamped with this context.
StampedWith(c) ==
    stamped[CHOOSE i \in 1..Len(stamped) : stamped[i].context = c].line

\* The tuple a decompressor is to emit for the alignment line input, read
\* from a read sequence seq.
Emitted(input, seq) ==
    LET shifted == decompress(input.offset, input.offset + input.length, seq)
        payload == Slice(seq, shifted[1], shifted[2])
    IN  [line |-> AlignmentLine(input.read_id, input.direction, shifted[1],
                                shifted[2] - shifted[1], input.length),
         shifted_sequence |->
             Some(IF input.direction THEN payload
                  ELSE [i \in 1..Len(payload) |->
                           Complement(payload[Len(payload) + 1 - i])])]

-----------------------------------------------------------------------------
(* The offset of an edge                                                   *)

\* The sum of f over the entries i of forwarded that satisfy the test,
\* from entry n down.
RECURSIVE SumForwarded(_, _, _)
SumForwarded(n, contig_index, edge_index) ==
    IF n = 0 THEN [length |-> 0, original_length |-> 0]
    ELSE LET rest == SumForwarded(n - 1, contig_index, edge_index)
             e    == forwarded[n]
         IN  IF /\ e.line.kind = "Alignment"
                /\ e.context.contig_index = contig_index
                /\ e.context.edge_index = edge_index
             THEN [length          |-> rest.length + e.line.length,
                   original_length |-> rest.original_length + e.line.original_length]
             ELSE rest

\* The forwarded edges of a contig with this edge index.
EdgesAt(contig_index, edge_index) ==
    {j \in 1..Len(forwarded) :
        /\ forwarded[j].line.kind = "Edge"
        /\ forwarded[j].context.contig_index = contig_index
        /\ forwarded[j].context.edge_index = edge_index}

\* The offset the edge forwarded as entry i is to have: from the input and
\* the rewritten offset of the edge before it in its contig (0 and 0 for
\* the first edge) and the sums over that edge's alignments, all taken from
\* what the parser stamped and the sorter forwarded.
ExpectedEdgeOffset(i) ==
    LET c        == forwarded[i].context
        before   == EdgesAt(c.contig_index, c.edge_index - 1)
        previous == CHOOSE j \in before : TRUE
        original_previous_offset ==
            IF before = {} THEN 0 ELSE StampedWith(forwarded[previous].context).offset
        shifted_previous_offset ==
            IF before = {} THEN 0 ELSE forwarded[previous].line.offset
        sums     == SumForwarded(i, c.contig_index, c.edge_index - 1)
    IN  shifted_previous_offset
          + ScaledOffset(StampedWith(c).offset - original_previous_offset,
                         sums.length, sums.original_length)

\* C16: the offset of every edge the sorter forwards is
\* shifted_previous_offset + round((offset - original_previous_offset) *
\* shifted_alignment_length_sum / original_alignment_length_sum), with the
\* sums over the alignments of the edge just before it in the same contig
\* and the offsets the input and the rewritten offset of that edge (0 and 0
\* after a contig line); and right after an edge is forwarded
\* original_previous_offset is its input offset, shifted_previous_offset
\* its rewritten offset and the sums are 0.
C16_EdgeOffset ==
    /\ \A i \in 1..Len(forwarded) :
          forwarded[i].line.kind = "Edge" =>
              forwarded[i].line.offset = ExpectedEdgeOffset(i)
    /\ (forwarded # <<>> /\ forwarded[Len(forwarded)].line.kind = "Edge") =>
          /\ sorter.original_previous_offset =
                StampedWith(forwarded[Len(forwarded)].context).offset
          /\ sorter.shifted_previous_offset = forwarded[Len(forwarded)].line.offset
          /\ sorter.original_alignment_length_sum = 0
          /\ sorter.shifted_alignment_length_sum = 0

\* An edge of input offset 1 is forwarded with offset 2: the alignment of
\* the edge before it has length 1 in the input and 2 on the read.
C16_Witness ==
    \E i \in 1..Len(forwarded) :
        /\ forwarded[i].line.kind = "Edge"
        /\ forwarded[i].context.edge_index = 1
        /\ StampedWith(forwarded[i].context).offset = 1
        /\ forwarded[i].line.offset = 2
        /\ SumForwarded(i, forwarded[i].context.contig_index, 0) =
              [length |-> 2, original_length |-> 1]

-----------------------------------------------------------------------------
(* The end of a run                                                        *)

\* The states a thread does not leave.
Over(state) == state \in {"done", "panicked", "aborted"}

\* Every thread of the scope has ended.
AllOver ==
    /\ \A s \in Stages : Over(pc[s])
    /\ \A thread_index \in DOMAIN decompressor : Over(decompressor[thread_index].pc)

\* The work left: every thread that has not ended, and every line by how
\* far it is from the output writer.
Work ==
    Cardinality({s \in Stages : ~Over(pc[s])})
      + Cardinality({thread_index \in DOMAIN decompressor :
                        ~Over(decompressor[thread_index].pc)})
      + 8 * (Len(input_lines) - line_number)
      + 7 * Len(input_queue)
      + 6 * Len(alignment_queue)
      + 5 * Len(decorated_queue)
      + 4 * Cardinality({thread_index \in DOMAIN decompressor :
                            decompressor[thread_index].pc = "sending"})
      + 3 * Len(decompressed_queue)
      + 2 * Len(sorted_lines)
      + Len(output_queue)

RECURSIVE AcceptedFrom(_, _, _)
AcceptedFrom(lines, i, c) ==
    IF i > Len(lines) THEN TRUE
    ELSE LET line == from_str(lines[i])
         IN  /\ line.kind # "panic"
             /\ ParserAsserts(c, line)
             /\ AcceptedFrom(lines, i + 1,
                             IF line.kind = "Contig" THEN ContigContext(c)
                             ELSE IF line.kind = "Edge" THEN EdgeContext(c)
                             ELSE AlignmentContext(c))

\* An accepted input: the parser takes every line, and every read is in
\* the index.
Accepted(lines) ==
    /\ AcceptedFrom(lines, 1, DefaultContext)
    /\ \A i \in 1..Len(lines) :
          from_str(lines[i]).kind = "Alignment" =>
              \E j \in 1..Len(NormalFasta) :
                  NormalFasta[j].id = from_str(lines[i]).read_id

\* C17: on an accepted input, for every queue size and number of
\* decompressors, every thread of the scope ends under fair scheduling
\* (in no state are all threads that have not ended blocked on a queue,
\* and every step takes from the finite work left), and when they have
\* ended every line of the input has been forwarded to the output writer
\* and sorted_lines is empty.
C17_AcceptedInputCompletes ==
    /\ [](Accepted(input_lines) => (AllOver \/ CanStep))
    /\ [][Accepted(input_lines) => Work' < Work]_vars
    /\ []((Accepted(input_lines) /\ AllOver) =>
             /\ Len(forwarded) = Len(input_lines)
             /\ sorted_lines = <<>>)

-----------------------------------------------------------------------------
(* Lines the parser does not take                                          *)

\* Line i of the input starts with this character.
StartsWith(i, character) == input_lines[i] # <<>> /\ input_lines[i][1] = character

\* A contig is open before line i, and an edge of that contig is.
ContigOpen(i) == \E j \in 1..(i - 1) : StartsWith(j, ">")
EdgeOpen(i) ==
    \E j \in 1..(i - 1) :
        /\ StartsWith(j, "E")
        /\ \A k \in (j + 1)..(i - 1) : ~StartsWith(k, ">")

\* Line i is an edge line without an open contig, or an alignment line
\* without an open contig or without an open edge of the contig.
OutOfPlace(i) ==
    \/ StartsWith(i, "E") /\ ~ContigOpen(i)
    \/ StartsWith(i, "S") /\ ~(ContigOpen(i) /\ EdgeOpen(i))

\* What is in the two queues the parser sends to.
ParserSent ==
    {[line |-> decompressed_queue[i].line, context |-> decompressed_queue[i].context] :
        i \in {j \in 1..Len(decompressed_queue) :
                  decompressed_queue[j].shifted_sequence = None}}
      \cup {alignment_queue[i] : i \in 1..Len(alignment_queue)}

\* C21: an edge line read while no contig is open, and an alignment line
\* read while no contig or no edge of the contig is open, is fatal in the
\* parser: the parser stamps and sends nothing for that line or a later
\* one, what is in its two queues is of lines before it, and the parser
\* does not return.
C21_OutOfPlaceIsFatal ==
    \A i \in 1..Len(input_lines) :
        OutOfPlace(i) =>
            /\ Len(stamped) < i
            /\ ParserSent \subseteq {stamped[j] : j \in 1..(i - 1) \cap 1..Len(stamped)}
            /\ pc["input_parser"] # "done"

\* The parser has panicked on an alignment line that follows a contig line.
C21_Witness ==
    /\ Len(input_lines) >= 2
    /\ StartsWith(1, ">")
    /\ OutOfPlace(2)
    /\ StartsWith(2, "S")
    /\ Len(stamped) = 1
    /\ pc["input_parser"] = "panicked"
    /\ input_queue = <<>>
    /\ line_number >= 2

-----------------------------------------------------------------------------
(* The counts a context carries over                                       *)

\* The number of edge lines stamped in contig k, and of alignment lines
\* stamped in its edge e.
EdgeCount(k) ==
    Cardinality({j \in 1..Len(stamped) :
                    /\ stamped[j].line.kind = "Edge"
                    /\ stamped[j].context.contig_index = k})
AlignmentCount(k, e) ==
    Cardinality({j \in 1..Len(stamped) :
                    /\ stamped[j].line.kind = "Alignment"
                    /\ stamped[j].context.contig_index = k
                    /\ stamped[j].context.edge_index = e})

\* The number of alignments of the last edge of contig k, 0 when there is
\* no such contig or it has no edge.
LastEdgeAlignmentCount(k) ==
    IF k < 0 \/ EdgeCount(k) = 0 THEN 0 ELSE AlignmentCount(k, EdgeCount(k) - 1)

\* A count that is not set: the value LineContext::default() gives it.
Unset == DefaultContext.previous_edge_alignment_count

\* C22 as the specification states it: previous_edge_alignment_count is
\* the number of alignments of the edge before within the contig, and is
\* unset for the contig line and the first edge of a contig;
\* previous_contig_edge_count is the number of edges of the contig before,
\* unset in the first contig.
C22_AsStated ==
    \A i \in 1..Len(stamped) :
        LET c == stamped[i].context
        IN  /\ c.previous_contig_edge_count =
                  IF c.contig_index = 0 THEN Unset ELSE EdgeCount(c.contig_index - 1)
            /\ c.previous_edge_alignment_count =
                  IF c.edge_index >= 1
                  THEN AlignmentCount(c.contig_index, c.edge_index - 1)
                  ELSE Unset

\* C22: in every context the parser stamps, previous_contig_edge_count is
\* the number of edges of the contig before (0 in the first contig), and
\* previous_edge_alignment_count is, from the second edge of a contig on,
\* the number of alignments of the edge before within the contig, and, for
\* the contig line, the first edge of the contig and the alignments of that
\* edge, the number of alignments of the last edge of the contig before
\* (0 in the first contig and after a contig without edges).
C22_CountsCarriedOver ==
    \A i \in 1..Len(stamped) :
        LET c == stamped[i].context
        IN  /\ c.previous_contig_edge_count =
                  IF c.contig_index = 0 THEN 0 ELSE EdgeCount(c.contig_index - 1)
            /\ c.previous_edge_alignment_count =
                  IF c.edge_index >= 1
                  THEN AlignmentCount(c.contig_index, c.edge_index - 1)
                  ELSE LastEdgeAlignmentCount(c.contig_index - 1)

\* The first edge of the second contig and an alignment of it carry the
\* count of the alignments of the last edge of the first contig.
C22_Witness ==
    /\ Len(stamped) = 6
    /\ stamped[5].line.kind = "Edge"
    /\ stamped[5].context.contig_index = 1
    /\ stamped[5].context.edge_index = 0
    /\ stamped[5].context.previous_edge_alignment_count = 1
    /\ stamped[5].context.previous_contig_edge_count = 1
    /\ stamped[6].line.kind = "Alignment"
    /\ stamped[6].context.previous_edge_alignment_count = 1

-----------------------------------------------------------------------------
(* Each context follows the one before                                     *)

\* C26: each context the parser stamps is the direct successor of the one
\* stamped just before it, and the first of the default context, contigs
\* without edges and edges without alignments included.
C26_StampedDirectSuccessors ==
    \A i \in 1..Len(stamped) :
        directly_precedes(IF i = 1 THEN DefaultContext ELSE stamped[i - 1].context,
                          stamped[i].context)

\* A contig without edges, a contig with an edge without alignments and an
\* edge with an alignment, and a contig after them.
C26_Witness ==
    /\ Len(stamped) = 6
    /\ pc["input_parser"] = "done"
    /\ stamped[1].line.kind = "Contig"
    /\ stamped[2].line.kind = "Contig"
    /\ stamped[3].line.kind = "Edge"
    /\ stamped[4].line.kind = "Edge"
    /\ stamped[5].line.kind = "Alignment"
    /\ stamped[6].line.kind = "Contig"

-----------------------------------------------------------------------------
(* The asserts of the ordering                                             *)

\* Two contexts agree on the counts cmp asserts to be equal.
CountsAgree(a, b) ==
    a.contig_index = b.contig_index =>
        /\ a.previous_contig_edge_count = b.previous_contig_edge_count
        /\ a.edge_index = b.edge_index =>
              a.previous_edge_alignment_count = b.previous_edge_alignment_count

\* C23: under every interleaving, any two contexts the parser has stamped,
\* and so any two that are compared in sorted_lines, agree on
\* previous_contig_edge_count when they have the same contig_index and on
\* previous_edge_alignment_count when they also have the same edge_index;
\* the insert of the tuple the sorter is about to receive does not panic
\* in cmp.
C23_CarryoverAssertsHold ==
    /\ \A i, j \in 1..Len(stamped) : CountsAgree(stamped[i].context, stamped[j].context)
    /\ \A i, j \in 1..Len(sorted_lines) : cmp(sorted_lines[i].context,
                                               sorted_lines[j].context) # "panic"
    /\ decompressed_queue # <<>> =>
          BTreeInsert(sorted_lines, Head(decompressed_queue))[2] # "panic"

\* Two alignments of one edge are in sorted_lines, the second inserted
\* after a comparison with the first.
C23_Witness ==
    /\ Len(sorted_lines) = 2
    /\ sorted_lines[1].line.kind = "Alignment"
    /\ sorted_lines[2].line.kind = "Alignment"
    /\ sorted_lines[1].context.edge_index = sorted_lines[2].context.edge_index
    /\ sorted_lines[1].context.contig_index = sorted_lines[2].context.contig_index
    /\ pc["sorter"] = "running"

-----------------------------------------------------------------------------
(* The length of the last edge of a contig                                 *)

\* round(sum of the shifted lengths / number of alignments) over the
\* alignments of the last edge of contig c that the sorter forwarded; 0
\* when the contig has no edge or its last edge no alignment.
LastEdgeEstimate(c) ==
    LET i     == LastOf(ForwardedOf(c, "Edge"))
        e     == forwarded[i].context.edge_index
        count == Cardinality({j \in ForwardedOf(c, "Alignment") :
                                 forwarded[j].context.edge_index = e})
    IN  IF i = 0 \/ count = 0 THEN 0
        ELSE RoundDiv(SumForwarded(Len(forwarded), c, e).length, count)

-----------------------------------------------------------------------------
(* A context that arrives twice                                            *)

\* The number of tuples the sorter has received.
SorterReceived == Len(stamped) - Len(decompressed_queue)

\* The sorter has received tuple j, whose context it had received before.
ArrivedTwice(j) ==
    /\ j <= SorterReceived
    /\ \E i \in 1..(j - 1) : stamped[i].context = stamped[j].context

-----------------------------------------------------------------------------
(* What is popped across a boundary                                        *)

\* current_context when the sorter popped forwarded[i].
ContextBefore(i) == IF i = 1 THEN DefaultContext ELSE forwarded[i - 1].context

\* C27: under every interleaving, a tuple the sorter pops whose
\* contig_index differs from current_context's is a contig line, and one
\* with the same contig_index and a different edge_index is an edge line:
\* no alignment is popped across a contig or an edge boundary.
C27_BoundaryRecordKinds ==
    \A i \in 1..Len(forwarded) :
        LET popped == forwarded[i]
            before == ContextBefore(i)
        IN  /\ popped.context.contig_index # before.contig_index
                  => popped.line.kind = "Contig"
            /\ (/\ popped.context.contig_index = before.contig_index
                /\ popped.context.edge_index # before.edge_index)
                  => popped.line.kind = "Edge"

\* An alignment was popped, and the tuple popped next is across a contig
\* or an edge boundary.
C27_Witness ==
    \E i \in 2..Len(forwarded) :
        /\ forwarded[i - 1].line.kind = "Alignment"
        /\ \/ forwarded[i].context.contig_index # ContextBefore(i).contig_index
           \/ forwarded[i].context.edge_index # ContextBefore(i).edge_index

-----------------------------------------------------------------------------
(* The items of a run and the input                                        *)

\* The items the sorter forwards for lines[i..], in the order of the
\* lines: each line stamped by the parser from context c, an alignment
\* decompressed on the sequence of its read, and the tuple rewritten by
\* the sorter with the locals it has after the lines before. The items
\* end at the first line the parser rejects or whose read is not in the
\* index.
RECURSIVE ItemsFrom(_, _, _, _)
ItemsFrom(lines, i, c, locals) ==
    IF i > Len(lines) THEN <<>>
    ELSE LET line == from_str(lines[i]) IN
         IF line.kind = "panic" THEN <<>>
         ELSE IF ~ParserAsserts(c, line) THEN <<>>
         ELSE IF /\ line.kind = "Alignment"
                 /\ \A j \in 1..Len(NormalFasta) : NormalFasta[j].id # line.read_id
         THEN <<>>
         ELSE LET stamp  == IF line.kind = "Contig" THEN ContigContext(c)
                            ELSE IF line.kind = "Edge" THEN EdgeContext(c)
                            ELSE AlignmentContext(c)
                  sent   == IF line.kind = "Alignment"
                            THEN Emitted(line, ReadOf(line.read_id))
                            ELSE [line |-> line, shifted_sequence |-> None]
                  output == SorterOutput(locals, sent)
              IN  <<[line |-> output.line, context |-> stamp,
                     sequence_and_length |-> output.sequence_and_length]>>
                  \o ItemsFrom(lines, i + 1, stamp, SorterStep(locals, sent.line))

\* The items of the input layout on the read index.
Items(lines) == ItemsFrom(lines, 1, DefaultContext, SorterLocals)

-----------------------------------------------------------------------------
(* An edge after no alignment                                              *)

\* The rewritten offset of the edge before the edge forwarded as entry i
\* in its contig, 0 for the first edge.
OffsetBefore(i) ==
    LET c      == forwarded[i].context
        before == EdgesAt(c.contig_index, c.edge_index - 1)
    IN  IF before = {} THEN 0
        ELSE forwarded[CHOOSE j \in before : TRUE].line.offset

\* The sorter forwards an edge in this step.
EdgeForwarded ==
    /\ Len(forwarded') = Len(forwarded) + 1
    /\ forwarded'[Len(forwarded')].line.kind = "Edge"

\* C29: an edge the sorter processes while original_alignment_length_sum
\* is 0 is forwarded with offset shifted_previous_offset, whatever its
\* input offset; the sum is 0 for the first edge of a contig and for an
\* edge whose preceding edge has no alignments or only alignments of
\* length 0, so that such an edge has the rewritten offset of the edge
\* before it, and the first edge of every contig offset 0.
C29_OffsetWithoutAlignments ==
    /\ [][(EdgeForwarded /\ sorter.original_alignment_length_sum = 0)
             => forwarded'[Len(forwarded')].line.offset
                    = sorter.shifted_previous_offset]_vars
    /\ [](\A i \in 1..Len(forwarded) :
             LET c == forwarded[i].context
             IN  (/\ forwarded[i].line.kind = "Edge"
                  /\ SumForwarded(i, c.contig_index, c.edge_index - 1).original_length = 0)
                     => /\ forwarded[i].line.offset = OffsetBefore(i)
                        /\ c.edge_index = 0 => forwarded[i].line.offset = 0)

\* An edge of input offset 1 whose preceding edge has one alignment, of
\* length 0, has been forwarded with the offset 0 of that edge, and so has
\* that edge, the first of its contig, whose input offset is 1 as well.
C29_Witness ==
    \E i, j, k \in 1..Len(forwarded) :
        /\ forwarded[i].line.kind = "Edge"
        /\ forwarded[i].context.edge_index = 1
        /\ StampedWith(forwarded[i].context).offset = 1
        /\ forwarded[i].line.offset = 0
        /\ forwarded[j].line.kind = "Alignment"
        /\ forwarded[j].context.contig_index = forwarded[i].context.contig_index
        /\ forwarded[j].context.edge_index = 0
        /\ forwarded[j].line.original_length = 0
        /\ forwarded[k].line.kind = "Edge"
        /\ forwarded[k].context.contig_index = forwarded[i].context.contig_index
        /\ forwarded[k].context.edge_index = 0
        /\ StampedWith(forwarded[k].context).offset = 1
        /\ forwarded[k].line.offset = 0

====
